---------------------------- MODULE Spec2Model ----------------------------
(***************************************************************************)
(* Content aggregation and novelty tracking of the DODODATA repository:    *)
(*   extinct_facts/views.py            get_extinct_fact, get_latest_news   *)
(*   extinct_facts/facts_service.py    FactsService                        *)
(*   extinct_facts/wikidata_service.py WikidataService                     *)
(*   image_search/image_service.py     MultiSourceImageSearch              *)
(*                                                                         *)
(* Spec is the session of one consumer (facts and news windows),           *)
(* SpecImages is one call of search_images, SpecDedup is remove_duplicates *)
(* on its own.                                                             *)
(*                                                                         *)
(* random.choice is a nondeterministic choice over the list it is given.   *)
(* The session store is total: get and set never raise, so the except      *)
(* branches of the two views (views.py 67-76 and 108-110), which only a    *)
(* failing session store can enter, are not actions of the model.          *)
(***************************************************************************)
EXTENDS Integers, Sequences, FiniteSets, TLC

VARIABLES
    session_facts,  \* request.session['recent_facts'] of the consumer
    recent_facts,   \* the list read by the get-fact request (views.py:39)
    fpc,            \* position of the get-fact request: "idle" | "loop"
    attempt,        \* loop index of get_extinct_fact (views.py:43)
    svc_recent,     \* WikidataService.recent_facts of the request's service
    svc_fell,       \* history: a draw of the request came from line 54
    fact_resp,      \* Response of get-fact: [status, title, draws] or NoResp
    fact_hist,      \* history: titles of the last HistLen served facts
    fact_reqs,      \* history: number of get-fact requests completed
    session_news,   \* request.session['recent_news'] of the consumer
    recent_news,    \* the list read by the get-latest-news request (:89)
    news_resp,      \* last Response of get-latest-news: [status, title]
    news_hist,      \* history: the last NewsHistLen served news, oldest first
    news_reqs,      \* history: number of get-latest-news requests completed
    img_query,      \* search_images: the query argument
    img_max,        \* search_images: the max_results argument
    all_images,     \* search_images: all_images (image_service.py:29)
    unique_images,  \* search_images: unique_images (:46)
    img_idx,        \* search_images: position of the validation loop (:50)
    validated_images, \* search_images: validated_images (:49)
    img_pc,         \* search_images: "idle" | "sources" | "dedup" |
                    \*   "validate" | "curated" | "done"
    img_result,     \* search_images: the returned list (:64)
    img_log,        \* history: the verdicts of validate_image in the call,
                    \*   in the order of the probes
    dd_in,          \* remove_duplicates: the images argument
    dd_out,         \* remove_duplicates: the list returned for dd_in
    dd_again,       \* remove_duplicates: the list returned for dd_out
    dd_pc,          \* remove_duplicates: "idle" | "in" | "once" | "twice"
    vl_image,       \* validate_image: the image argument
    vl_query,       \* validate_image: the query argument
    vl_bytes,       \* validate_image: the size of the media behind the URL
    vl_probe,       \* validate_image: what the HEAD request does (:72)
    vl_result,      \* validate_image: the value returned
    vl_heads,       \* validate_image: HEAD requests made by the call (:72)
    vl_raised,      \* validate_image: the exception that left the call
    vl_pc,          \* validate_image: "idle" | "call" | "done"
    iv_view,        \* image view: "views_new" | "views_backup"
    iv_body,        \* image view: the body of the request
    iv_prompt,      \* image view: prompt (views_new.py:27)
    iv_phase,       \* image view: "idle" | "parse" | "pollinations" |
                    \*   "variations" | "respond" | "done"
    iv_i,           \* image view: index of the running download loop
    iv_images,      \* image view: images (views_new.py:37)
    iv_fetches,     \* history: the downloads attempted, in order
    iv_resp,        \* image view: the Response returned
    cc_store,       \* sessions: the stored session of each session key
    cc_req,         \* sessions: the requests in flight (consumer, copy..)
    sr_domain,      \* sources: "news" (fetch_tech_news) or "images"
    sr_pc,          \* sources: "idle" | "call" | "fetched" | "done"
    sr_history,     \* sources: recent_news of fetch_tech_news
    sr_query,       \* sources: query of search_images
    sr_http,        \* sources: what the requests of the first source met
    sr_results,     \* sources: the list `sources` (views.py:119,
                    \*   image_service.py:32)
    sr_out,         \* sources: what the aggregator holds after combining
    mt_impl,        \* materialize: the code that saves the image
    mt_prompt,      \* materialize: the prompt of the requests
    mt_salt,        \* materialize: the salt of str hashes in this process
    mt_files,       \* materialize: the files of static/generated_images
    mt_log,         \* history: the materializations made, in order
    fb_history,     \* fallback: the recent_news that get_fallback_news is given
    fb_stored,      \* fallback: the recent_news of the session at the call
    fb_out,         \* fallback: the response and the session after the call
    fb_pc           \* fallback: "call" or "done"

factVars == <<session_facts, recent_facts, fpc, attempt, svc_recent,
              svc_fell, fact_resp, fact_hist,
              fact_reqs>>

newsVars == <<session_news, recent_news, news_resp, news_hist, news_reqs>>

imgVars == <<img_query, img_max, all_images, unique_images, img_idx,
             validated_images, img_pc, img_result, img_log>>

ddVars == <<dd_in, dd_out, dd_again, dd_pc>>

vlVars == <<vl_image, vl_query, vl_bytes, vl_probe, vl_result, vl_heads,
            vl_raised, vl_pc>>

ivVars == <<iv_view, iv_body, iv_prompt, iv_phase, iv_i, iv_images,
            iv_fetches, iv_resp>>

ccVars == <<cc_store, cc_req>>

srVars ==
    <<sr_domain, sr_pc, sr_history, sr_query, sr_http, sr_results, sr_out>>

mtVars == <<mt_impl, mt_prompt, mt_salt, mt_files, mt_log>>

fbVars == <<fb_history, fb_stored, fb_out, fb_pc>>

vars ==
    <<factVars, newsVars, imgVars, ddVars, vlVars, ivVars, ccVars, srVars,
      mtVars, fbVars>>

\* The variables that the requests of a session leave alone, and the same
\* for a call of search_images, of remove_duplicates and of validate_image
\* and for a request to the image view
nonSessionVars ==
    <<imgVars, ddVars, vlVars, ivVars, ccVars, srVars, mtVars, fbVars>>

nonImgVars ==
    <<factVars, newsVars, ddVars, vlVars, ivVars, ccVars, srVars, mtVars,
      fbVars>>

nonDdVars ==
    <<factVars, newsVars, imgVars, vlVars, ivVars, ccVars, srVars, mtVars,
      fbVars>>

nonVlVars ==
    <<factVars, newsVars, imgVars, ddVars, ivVars, ccVars, srVars, mtVars,
      fbVars>>

nonIvVars ==
    <<factVars, newsVars, imgVars, ddVars, vlVars, ccVars, srVars, mtVars,
      fbVars>>

nonCcVars ==
    <<factVars, newsVars, imgVars, ddVars, vlVars, ivVars, srVars, mtVars,
      fbVars>>

nonSrVars ==
    <<factVars, newsVars, imgVars, ddVars, vlVars, ivVars, ccVars, mtVars,
      fbVars>>

nonMtVars ==
    <<factVars, newsVars, imgVars, ddVars, vlVars, ivVars, ccVars, srVars,
      fbVars>>

nonFbVars ==
    <<factVars, newsVars, imgVars, ddVars, vlVars, ivVars, ccVars, srVars,
      mtVars>>

----------------------------------------------------------------------------
(* Bounds of the model *)

\* requests (get-fact and get-latest-news together) explored after the
\* initial session
MaxReqs == 1

\* served facts remembered by the history variable fact_hist
HistLen == 6

\* served news remembered by the history variable news_hist
NewsHistLen == 11

----------------------------------------------------------------------------
(* Sequence helpers *)

Range(s) == {s[i] : i \in 1..Len(s)}

\* Python's s[-k:] for k > 0
LastK(s, k) == IF Len(s) <= k THEN s ELSE SubSeq(s, Len(s) - k + 1, Len(s))

NoResp == [status |-> 0, title |-> "", draws |-> 0]

\* No get-latest-news request yet, on an empty session
NewsIdle ==
    /\ session_news = << >>
    /\ recent_news = << >>
    /\ news_resp = [status |-> 0, title |-> ""]
    /\ news_hist = << >>
    /\ news_reqs = 0

\* No search_images call
ImgIdle ==
    /\ img_query = << >>
    /\ img_max = 0
    /\ all_images = << >>
    /\ unique_images = << >>
    /\ img_idx = 0
    /\ validated_images = << >>
    /\ img_pc = "idle"
    /\ img_result = << >>
    /\ img_log = << >>

\* No remove_duplicates call
DedupIdle ==
    /\ dd_in = << >>
    /\ dd_out = << >>
    /\ dd_again = << >>
    /\ dd_pc = "idle"

\* No validate_image call
ValidateIdle ==
    /\ vl_image = [url |-> << >>, title |-> << >>, source |-> ""]
    /\ vl_query = << >>
    /\ vl_bytes = 0
    /\ vl_probe = [raises |-> FALSE, status_code |-> 0,
                   content_type |-> << >>, content_length |-> << >>]
    /\ vl_result = FALSE
    /\ vl_heads = 0
    /\ vl_raised = ""
    /\ vl_pc = "idle"

\* No request to the image view
ViewIdle ==
    /\ iv_view = "views_new"
    /\ iv_body = [json |-> FALSE, has_query |-> FALSE, is_str |-> FALSE,
                  query |-> << >>]
    /\ iv_prompt = << >>
    /\ iv_phase = "idle"
    /\ iv_i = 0
    /\ iv_images = << >>
    /\ iv_fetches = << >>
    /\ iv_resp = [status |-> 0, error |-> FALSE, total_results |-> 0,
                  images |-> << >>]

\* No concurrent requests
SessIdle ==
    /\ cc_store = << >>
    /\ cc_req = << >>

\* No call of an aggregator
SourcesIdle ==
    /\ sr_domain = ""
    /\ sr_pc = "idle"
    /\ sr_history = << >>
    /\ sr_query = << >>
    /\ sr_http = << >>
    /\ sr_results = << >>
    /\ sr_out = << >>

\* No materialization
MaterializeIdle ==
    /\ mt_impl = ""
    /\ mt_prompt = << >>
    /\ mt_salt = ""
    /\ mt_files = {}
    /\ mt_log = << >>

\* No call of get_fallback_news on its own
FallbackIdle ==
    /\ fb_history = << >>
    /\ fb_stored = << >>
    /\ fb_out = [resp |-> [status |-> 0, title |-> ""], session |-> << >>,
                 path |-> ""]
    /\ fb_pc = ""

\* No get-fact request yet, on an empty session
FactIdle ==
    /\ session_facts = << >>
    /\ recent_facts = << >>
    /\ fact_hist = << >>
    /\ fpc = "idle"
    /\ attempt = 0
    /\ svc_recent = << >>
    /\ svc_fell = FALSE
    /\ fact_resp = NoResp
    /\ fact_reqs = 0

----------------------------------------------------------------------------
(* WikidataService: the curated fact table (titles only; a fact is         *)
(* identified by its title, all 21 titles are distinct).  A title is       *)
(* written without the pictograph and the space it starts with in the      *)
(* source; the titles stay distinct.                                       *)

_get_programming_language_facts ==
    << "Python Programming Language", "Java Programming Language",
       "JavaScript", "C Programming Language", "Rust Programming Language" >>

_get_computer_scientist_facts ==
    << "Alan Turing", "Ada Lovelace", "Steve Jobs", "Tim Berners-Lee",
       "Larry Page & Sergey Brin" >>

_get_ai_technology_facts ==
    << "ChatGPT", "Neural Networks", "Machine Learning", "Computer Vision",
       "Natural Language Processing" >>

_get_software_company_facts ==
    << "Microsoft Corporation", "Apple Inc.", "Google (Alphabet)" >>

_get_computing_milestone_facts ==
    << "The First Computer Bug", "The First Website", "The First Email" >>

all_facts ==
    _get_programming_language_facts \o _get_computer_scientist_facts \o
    _get_ai_technology_facts \o _get_software_company_facts \o
    _get_computing_milestone_facts

AllFactTitles == Range(all_facts)

\* self.max_recent
max_recent == 5

\* range(10) of get_fallback_it_ai_fact
svc_attempts == 10

\* Mutant of _add_to_recent: nothing is ever removed
_add_to_recent_NoEvict(recent, title) ==
    IF title # "" THEN Append(recent, title) ELSE recent

\* Mutant of _add_to_recent: only the last title is remembered
_add_to_recent_OnlyLast(recent, title) ==
    IF title # "" THEN <<title>> ELSE recent

\* WikidataService._add_to_recent
_add_to_recent(recent, title) ==
    IF title # ""
    THEN LET r == Append(recent, title)
         IN  IF Len(r) > max_recent THEN Tail(r) ELSE r
    ELSE recent

\* Lines 47-51 with n iterations left: every remaining draw of the loop can
\* fall inside the recent list, so that the loop ends without returning
RECURSIVE AllDrawsCollide(_, _)
AllDrawsCollide(n, recent) ==
    IF n = 0
    THEN TRUE
    ELSE /\ \E f \in AllFactTitles : f \in Range(recent)
         /\ AllDrawsCollide(n - 1, recent)

\* get_fallback_it_ai_fact: the set of its outcomes [fact, recent'].  The
\* first draw outside the recent list is returned and remembered (47-51);
\* when all ten draws are inside it, an arbitrary fact is returned and
\* nothing is remembered (54).
get_fallback_it_ai_fact(recent) ==
    (IF svc_attempts > 0
     THEN {[fact |-> f, recent |-> _add_to_recent(recent, f)] :
             f \in AllFactTitles \ Range(recent)}
     ELSE {})
    \cup
    (IF AllDrawsCollide(svc_attempts, recent)
     THEN {[fact |-> f, recent |-> recent] : f \in AllFactTitles}
     ELSE {})

\* Mutant of get_it_ai_fact: the try body can also return an entity found by
\* a query to self.base_url
get_it_ai_fact_Wikidata(recent) ==
    get_fallback_it_ai_fact(recent)
    \cup {[fact |-> "Wikidata entity", recent |-> recent]}

\* The outcome came from line 54: nothing was appended to the recent list
\* (an appended title is not in the list, so that line 50 always changes it)
FellThrough(recent, out) == out.recent = recent

\* WikidataService.get_it_ai_fact: the try body returns the curated fact
get_it_ai_fact(recent) == get_fallback_it_ai_fact(recent)

\* FactsService.get_extinct_fact: a fact is a non-empty dict, so the
\* "if fact_data" branch is taken
FactsService_get_extinct_fact(recent) == get_it_ai_fact(recent)

----------------------------------------------------------------------------
(* get_extinct_fact (views.py:27-76) *)

\* max_attempts
max_attempts == 10

\* "keep only last 5"
FactCap == 5

\* Mutant of RecordFact: the window is never trimmed
RecordFact_NoTrim(window, fact_title) == Append(window, fact_title)

\* Mutant of RecordFact: a title that is in the window is not recorded again
RecordFact_SkipRepeat(window, fact_title) ==
    IF fact_title \in Range(window)
    THEN window
    ELSE LastK(Append(window, fact_title), FactCap)

\* views.py:58-61: append, then keep the last 5
RecordFact(window, fact_title) ==
    LET r == Append(window, fact_title)
    IN  IF Len(r) > FactCap THEN LastK(r, FactCap) ELSE r

\* Mutant of AcceptFact: the window is not consulted
AcceptFact_NoWindowCheck(fact_title, window, att) == att >= 0

\* Mutant of AcceptFact: only the most recent entry of the window is consulted
AcceptFact_OnlyLast(fact_title, window, att) ==
    IF window = << >> \/ att = max_attempts - 1
    THEN TRUE
    ELSE fact_title # window[Len(window)]

\* Mutant of AcceptFact: the last attempt is not accepted unconditionally
AcceptFact_NoLastAttempt(fact_title, window, att) ==
    fact_title \notin Range(window)

\* Mutant of AcceptFact: every attempt after the first accepts a repeat
AcceptFact_SecondAttempt(fact_title, window, att) ==
    fact_title \notin Range(window) \/ att >= 1

\* views.py:56
AcceptFact(fact_title, window, att) ==
    fact_title \notin Range(window) \/ att = max_attempts - 1

\* views.py:33-39: the service is constructed, the window is read
FactStart ==
    /\ fpc = "idle"
    /\ fact_reqs + news_reqs < MaxReqs
    /\ fpc' = "loop"
    /\ attempt' = 0
    /\ svc_recent' = << >>
    /\ svc_fell' = FALSE
    /\ fact_resp' = NoResp
    /\ recent_facts' = session_facts
    /\ UNCHANGED <<session_facts, fact_hist, fact_reqs,
                   newsVars, nonSessionVars>>

\* views.py:44-63,65: a draw that is accepted, recorded and returned
FactAccept ==
    /\ fpc = "loop"
    /\ attempt < max_attempts
    /\ \E out \in FactsService_get_extinct_fact(svc_recent) :
          /\ AcceptFact(out.fact, recent_facts, attempt)
          /\ session_facts' = RecordFact(recent_facts, out.fact)
          /\ fact_resp' = [status |-> 200, title |-> out.fact,
                            draws |-> attempt + 1]
          /\ fact_hist' = LastK(Append(fact_hist, out.fact), HistLen)
          /\ svc_fell' = (svc_fell \/ FellThrough(svc_recent, out))
    /\ fpc' = "idle"
    /\ attempt' = 0
    /\ svc_recent' = << >>
    /\ fact_reqs' = fact_reqs + 1
    /\ UNCHANGED <<recent_facts, newsVars, nonSessionVars>>

\* views.py:43-56: a draw found in the window, before the last attempt
FactRetry ==
    /\ fpc = "loop"
    /\ attempt < max_attempts
    /\ \E out \in FactsService_get_extinct_fact(svc_recent) :
          /\ ~AcceptFact(out.fact, recent_facts, attempt)
          /\ svc_recent' = out.recent
          /\ svc_fell' = (svc_fell \/ FellThrough(svc_recent, out))
    /\ attempt' = attempt + 1
    /\ UNCHANGED <<session_facts, recent_facts, fpc, fact_resp, fact_hist,
                   fact_reqs, newsVars, nonSessionVars>>

\* The stored window after the first n requests of a session that served the
\* facts of the table in table order
FactSeed(n) == LastK(SubSeq(all_facts, 1, n), FactCap)

\* A get-fact request on the stored window w can answer t at its first draw
\* and leave the window w2
FactStep(w, t, w2) ==
    \E out \in FactsService_get_extinct_fact(<< >>) :
       out.fact = t /\ AcceptFact(t, w, 0) /\ RecordFact(w, t) = w2

\* The first n requests of that session are steps of the model
FactSeedOk(n) ==
    \A i \in 1..n : FactStep(FactSeed(i - 1), all_facts[i], FactSeed(i))

\* The session when the explored requests begin: the one left by the first
\* n requests of that session
FactInit ==
    /\ \E n \in {m \in 0..FactCap : FactSeedOk(m)} :
          /\ session_facts = FactSeed(n)
          /\ fact_hist = SubSeq(all_facts, 1, n)
    /\ recent_facts = << >>
    /\ fpc = "idle"
    /\ attempt = 0
    /\ svc_recent = << >>
    /\ svc_fell = FALSE
    /\ fact_resp = NoResp
    /\ fact_reqs = 0
    /\ NewsIdle

----------------------------------------------------------------------------
(* get_latest_news and its sources (views.py:79-370).  A news item is      *)
(* identified by its title; None is Python's None.                         *)

None == "<None>"

\* What requests.get can meet: an exception (raises names it), or a response
\* with a status code and a JSON body
HttpRaises(exception, body) ==
    [raises |-> exception, status_code |-> 0, json |-> body]

HttpResponse(status_code, body) ==
    [raises |-> "", status_code |-> status_code, json |-> body]

\* views.py:149: the answers to the request for the top stories; the body is
\* the list of story ids
top_stories_responses ==
    {HttpRaises("ConnectionError", << >>), HttpRaises("Timeout", << >>),
     HttpResponse(404, << >>), HttpResponse(500, << >>),
     HttpResponse(200, << >>), HttpResponse(200, <<8863>>)}

\* views.py:158: the answers to the request for the story drawn
story_responses ==
    {HttpRaises("Timeout", [title |-> ""]),
     HttpResponse(503, [title |-> ""]),
     HttpResponse(200, [title |-> "Show HN: my garden in winter"]),
     HttpResponse(200, [title |-> "Python tops the developer survey"])}

\* views.py:164: of the story titles above, those that hold one of the
\* keywords ('Python', 'developer')
hn_keyword_titles == {"Python tops the developer survey"}

\* A value that is no return value: the exception left the function
Raises == "<raises>"

\* Mutant of fetch_hacker_news_on: no try/except around the requests
fetch_hacker_news_Uncaught(top, story) ==
    IF top.raises # "" THEN Raises
    ELSE IF top.status_code # 200 THEN None
    ELSE IF top.json = << >> THEN Raises
    ELSE IF story.raises # "" THEN Raises
    ELSE IF story.status_code # 200 THEN None
    ELSE IF story.json.title \in hn_keyword_titles
         THEN "Fire: " \o story.json.title
         ELSE None

\* fetch_hacker_news (views.py:143-173) when its two requests meet top and
\* story: an exception of requests.get, and the IndexError of random.choice
\* on an empty list of ids, are caught at 170 and None is returned at 173,
\* as it is for a status other than 200 and for a story without a keyword
fetch_hacker_news_on(top, story) ==
    IF top.raises # "" THEN None
    ELSE IF top.status_code # 200 THEN None
    ELSE IF top.json = << >> THEN None
    ELSE IF story.raises # "" THEN None
    ELSE IF story.status_code # 200 THEN None
    ELSE IF story.json.title \in hn_keyword_titles
         THEN "Fire: " \o story.json.title
         ELSE None

\* fetch_hacker_news: None (request failed, non-200, story without a tech
\* keyword) or a tech story from the top ten, its title prefixed
fetch_hacker_news ==
    {fetch_hacker_news_on(top, story) :
        top \in top_stories_responses, story \in story_responses}

\* fetch_github_trending: None or one of the top five repositories
fetch_github_trending == {None, "Star: llm-kit - Trending on GitHub"}

\* fetch_dev_to_articles: None or one of the first ten articles
fetch_dev_to_articles == {None, "Memo: Ten React patterns"}

\* current_policy_news of fetch_it_policy_news
current_policy_news ==
    << "H1B Visa Fee Increases Impact Tech Workers",
       "New I-94 Digital Requirements for Tech Professionals",
       "Remote Work Tax Implications for IT Workers",
       "GDPR Compliance Updates Affect IT Departments",
       "AI Regulation Bills Impact Software Development",
       "Net Neutrality Changes Affect Tech Infrastructure",
       "Cryptocurrency Regulation Updates for Tech Companies",
       "Corporate Tax Changes Impact Tech Startups" >>

\* Mutant of fetch_it_policy_news: the source may return None
fetch_it_policy_news_MayFail == Range(current_policy_news) \cup {None}

\* fetch_it_policy_news: random.choice(current_policy_news)
fetch_it_policy_news == Range(current_policy_news)

\* fallback_news of get_fallback_news
fallback_news ==
    << "OpenAI Releases GPT-4 Turbo with Vision",
       "DeepSeek Releases Open-Source AI Models",
       "Python 3.12 Introduces New Features",
       "JavaScript ES2024 Features Released",
       "GitHub Copilot Gets Major Updates",
       "H1B Visa Processing Delays Impact Tech Hiring",
       "Remote Work Tax Laws Create Compliance Challenges",
       "EU AI Act Implementation Affects Global Tech Companies",
       "Cybersecurity Regulations Tighten for Financial Tech",
       "Data Privacy Laws Expand Globally" >>

\* "keep only last 10"
NewsCap == 10

\* Mutant of fetch_tech_news: a source may raise, which the handler at
\* views.py:137 turns into None
fetch_tech_news_GivesUp(history, hn, gh, dev, pol) ==
    LET sources == <<hn, gh, dev, pol>>
        Valid(news) == news # None /\ news \notin Range(history)
        valid_news == SelectSeq(sources, Valid)
    IN  Range(valid_news) \cup {None}

\* Mutant of fetch_tech_news: the results are not compared with recent_news
fetch_tech_news_Unfiltered(history, hn, gh, dev, pol) ==
    LET sources == <<hn, gh, dev, pol>>
        Valid(news) == news # None
        valid_news == SelectSeq(sources, Valid)
    IN  IF valid_news # << >> THEN Range(valid_news) ELSE {None}

\* fetch_tech_news (views.py:113-140) for given results of the four sources:
\* the set of values it may return
fetch_tech_news(history, hn, gh, dev, pol) ==
    LET sources == <<hn, gh, dev, pol>>
        Valid(news) == news # None /\ news \notin Range(history)
        valid_news == SelectSeq(sources, Valid)
    IN  IF valid_news # << >> THEN Range(valid_news) ELSE {None}

\* Mutant of RecordNews: the newest entry is evicted (r[:10])
RecordNews_EvictNewest(window, news_title) ==
    LET r == Append(window, news_title)
    IN  IF Len(r) > NewsCap THEN SubSeq(r, 1, NewsCap) ELSE r

\* Mutant of RecordNews: the title is put in front of the window
RecordNews_Prepend(window, news_title) ==
    LET r == <<news_title>> \o window
    IN  IF Len(r) > NewsCap THEN SubSeq(r, 1, NewsCap) ELSE r

\* Mutant of RecordNews: the title is appended twice
RecordNews_Twice(window, news_title) ==
    LET r == Append(Append(window, news_title), news_title)
    IN  IF Len(r) > NewsCap THEN LastK(r, NewsCap) ELSE r

\* views.py:97-99 and 364-366: append, then keep the last 10
RecordNews(window, news_title) ==
    LET r == Append(window, news_title)
    IN  IF Len(r) > NewsCap THEN LastK(r, NewsCap) ELSE r

\* Mutant of get_fallback_news: the stored window is never cleared
get_fallback_news_NoReset(history, stored) ==
    LET NotRecent(t) == t \notin Range(history)
        filtered == SelectSeq(fallback_news, NotRecent)
        reset == (filtered = << >>)
        available_news == IF reset THEN fallback_news ELSE filtered
    IN  {[resp    |-> [status |-> 200, title |-> selected_news],
          session |-> RecordNews(stored, selected_news),
          path    |-> IF reset THEN "reset" ELSE "fallback"] :
            selected_news \in Range(available_news)}

\* Mutant of get_fallback_news: the selected title is not recorded
get_fallback_news_NoRecord(history, stored) ==
    {[resp    |-> [status |-> 200, title |-> selected_news],
      session |-> stored,
      path    |-> "fallback"] :
        selected_news \in Range(fallback_news) \ Range(history)}

\* get_fallback_news (views.py:292-370) called with the list `history` as
\* its recent_news while the session stores `stored`: the set of its outcomes
get_fallback_news(history, stored) ==
    LET NotRecent(t) == t \notin Range(history)
        filtered == SelectSeq(fallback_news, NotRecent)
        reset == (filtered = << >>)
        available_news == IF reset THEN fallback_news ELSE filtered
        stored1 == IF reset THEN << >> ELSE stored
    IN  {[resp    |-> [status |-> 200, title |-> selected_news],
          session |-> RecordNews(stored1, selected_news),
          path    |-> IF reset THEN "reset" ELSE "fallback"] :
            selected_news \in Range(available_news)}

\* Mutant of get_latest_news: the item served live has no 'title' key, so
\* that the default of news_data.get('title', '') is recorded
get_latest_news_Untitled(stored, hn, gh, dev, pol) ==
    UNION {
      IF news_data # None
      THEN {[resp    |-> [status |-> 200, title |-> news_data],
             session |-> RecordNews(stored, ""),
             path    |-> "live"]}
      ELSE get_fallback_news(stored, stored) :
      news_data \in fetch_tech_news(stored, hn, gh, dev, pol)}

\* get_latest_news (views.py:84-106) for given results of the four sources:
\* the set of its outcomes
get_latest_news(stored, hn, gh, dev, pol) ==
    LET read == stored
    IN  UNION {
          IF news_data # None
          THEN {[resp    |-> [status |-> 200, title |-> news_data],
                 session |-> RecordNews(read, news_data),
                 path    |-> "live"]}
          ELSE get_fallback_news(read, stored) :
          news_data \in fetch_tech_news(read, hn, gh, dev, pol)}

NewsDone(out) ==
    /\ recent_news' = session_news
    /\ session_news' = out.session
    /\ news_resp' = out.resp
    /\ news_hist' = LastK(Append(news_hist,
                            [title |-> out.resp.title, path |-> out.path]),
                          NewsHistLen)
    /\ news_reqs' = news_reqs + 1
    /\ UNCHANGED <<factVars, nonSessionVars>>

\* A get-latest-news request answered from a live source (views.py:94-103)
NewsLive ==
    /\ fpc = "idle"
    /\ fact_reqs + news_reqs < MaxReqs
    /\ \E hn \in fetch_hacker_news, gh \in fetch_github_trending,
          dev \in fetch_dev_to_articles, pol \in fetch_it_policy_news :
          \E out \in get_latest_news(session_news, hn, gh, dev, pol) :
             out.path = "live" /\ NewsDone(out)

\* A get-latest-news request answered by get_fallback_news (views.py:104-106)
NewsFallback ==
    /\ fpc = "idle"
    /\ fact_reqs + news_reqs < MaxReqs
    /\ \E hn \in fetch_hacker_news, gh \in fetch_github_trending,
          dev \in fetch_dev_to_articles, pol \in fetch_it_policy_news :
          \E out \in get_latest_news(session_news, hn, gh, dev, pol) :
             out.path # "live" /\ NewsDone(out)

\* Two sessions of earlier requests, as [title, path] per request.  RunA: a
\* policy item served live, then, that policy title being drawn again each
\* time and the other sources returning None, the ten curated items in table
\* order.  RunB: the eight policy items served live, then three curated items.
NewsRunA ==
    <<[title |-> current_policy_news[8], path |-> "live"]>> \o
    [i \in 1..10 |-> [title |-> fallback_news[i], path |-> "fallback"]]

NewsRunB ==
    [i \in 1..8 |-> [title |-> current_policy_news[i], path |-> "live"]] \o
    [i \in 1..3 |-> [title |-> fallback_news[i], path |-> "fallback"]]

Titles(h) == [i \in 1..Len(h) |-> h[i].title]

\* The stored window after the first n requests of the session `run`
NewsSeed(run, n) == LastK(Titles(SubSeq(run, 1, n)), NewsCap)

\* A get-latest-news request on the stored window w can take the step e and
\* leave the window w2
NewsStep(w, e, w2) ==
    \E hn \in fetch_hacker_news, gh \in fetch_github_trending,
       dev \in fetch_dev_to_articles, pol \in fetch_it_policy_news :
       \E out \in get_latest_news(w, hn, gh, dev, pol) :
          out.resp.title = e.title /\ out.path = e.path /\ out.session = w2

\* The first n requests of the session `run` are steps of the model
NewsSeedOk(run, n) ==
    \A i \in 1..n : NewsStep(NewsSeed(run, i - 1), run[i], NewsSeed(run, i))

\* The session when the explored requests begin: the one left by a prefix of
\* one of the two sessions above
NewsInit ==
    /\ \E run \in {NewsRunA, NewsRunB} :
       \E n \in {m \in 0..Len(run) : NewsSeedOk(run, m)} :
          /\ session_news = NewsSeed(run, n)
          /\ news_hist = LastK(SubSeq(run, 1, n), NewsHistLen)
    /\ recent_news = << >>
    /\ news_resp = [status |-> 0, title |-> ""]
    /\ news_reqs = 0
    /\ FactIdle

----------------------------------------------------------------------------
(* One consumer issuing get-fact and get-latest-news requests, one at a    *)
(* time, on a session that holds a facts history or a news history         *)

Init == (FactInit \/ NewsInit) /\ ImgIdle /\ DedupIdle /\ ValidateIdle
        /\ FallbackIdle
        /\ MaterializeIdle
        /\ SourcesIdle
        /\ SessIdle
        /\ ViewIdle

Next == FactStart \/ FactAccept \/ FactRetry \/ NewsLive \/ NewsFallback

Spec == Init /\ [][Next]_vars

----------------------------------------------------------------------------
(* Properties of the session windows *)

NoDuplicates(s) == \A i, j \in 1..Len(s) : i # j => s[i] # s[j]

\* A get-fact request has been answered in the explored part of the session
FactAnswered == fact_reqs >= 1 /\ fpc = "idle"

\* A get-latest-news request has been answered in the explored part
NewsAnswered == news_reqs >= 1 /\ news_resp.status # 0

\* C1: after any sequence of get-fact and get-latest-news requests the facts
\* window holds at most 5 titles and the news window at most 10.
C1_WindowsWithinCapacity ==
    Len(session_facts) <= 5 /\ Len(session_news) <= 10

\* C1 witness: a request on a full facts window whose ten draws all collided
\* has recorded its repeat, and the window still holds five titles.
C1_Witness ==
    /\ FactAnswered
    /\ Len(recent_facts) = 5
    /\ fact_resp.title \in Range(recent_facts)
    /\ Len(session_facts) = 5

\* C2 as stated: of two consecutive get-fact responses, and of two
\* consecutive get-latest-news responses, the second never carries the title
\* of the first (both pools hold more than one item).
C2_NeverSameTitleTwiceInARow ==
    /\ Len(fact_hist) >= 2 =>
          fact_hist[Len(fact_hist)] # fact_hist[Len(fact_hist) - 1]
    /\ Len(news_hist) >= 2 =>
          news_hist[Len(news_hist)].title # news_hist[Len(news_hist) - 1].title

\* C2 amended: a get-fact response carries the title of the response before
\* it only when all 10 draws of its request were spent; a get-latest-news
\* response never carries the title of the response before it.
C2_SameTitleOnlyAfterTenDraws ==
    /\ (FactAnswered /\ Len(fact_hist) >= 2
        /\ fact_hist[Len(fact_hist)] = fact_hist[Len(fact_hist) - 1])
          => fact_resp.draws = 10
    /\ Len(news_hist) >= 2 =>
          news_hist[Len(news_hist)].title # news_hist[Len(news_hist) - 1].title

\* C2 witness: a get-fact request that drew the previous title (or another
\* title of its window) first, drew again and answered a different title.
C2_Witness ==
    /\ FactAnswered
    /\ Len(fact_hist) >= 2
    /\ fact_resp.draws >= 2
    /\ fact_hist[Len(fact_hist)] # fact_hist[Len(fact_hist) - 1]

\* C3 as stated: no title appears twice within any 5 consecutive get-fact
\* responses.
C3_NoRepeatWithinFive ==
    \A i, j \in 1..Len(fact_hist) :
       (i < j /\ j - i < 5) => fact_hist[i] # fact_hist[j]

\* C3 amended: a get-fact response carries a title of one of the 4 responses
\* before it only when all 10 draws of its request were spent.
C3_RepeatWithinFiveOnlyAfterTenDraws ==
    (FactAnswered
     /\ \E i \in 1..(Len(fact_hist) - 1) :
           /\ Len(fact_hist) - i < 5
           /\ fact_hist[i] = fact_hist[Len(fact_hist)])
       => fact_resp.draws = 10

\* C3 witness: five consecutive responses, the last one by a request that
\* had to draw more than once, all different.
C3_Witness ==
    /\ FactAnswered
    /\ Len(fact_hist) >= 5
    /\ fact_resp.draws >= 2
    /\ NoDuplicates(LastK(fact_hist, 5))

\* The window read by the answered get-latest-news request held every title
\* of the curated news pool
CuratedPoolInWindow ==
    NewsAnswered /\ Range(fallback_news) \subseteq Range(recent_news)

C5_RequestsTerminate ==
    /\ fpc = "loop" =>
          /\ attempt <= 9
          /\ ENABLED (FactAccept \/ FactRetry)
          /\ attempt = 9 => ~ENABLED FactRetry
    /\ FactAnswered =>
          /\ fact_resp.status = 200
          /\ fact_resp.draws \in 1..10
          /\ fact_resp.title \in AllFactTitles
    /\ (fpc = "idle" /\ fact_reqs + news_reqs < MaxReqs) =>
          \A hn \in fetch_hacker_news, gh \in fetch_github_trending,
             dev \in fetch_dev_to_articles, pol \in fetch_it_policy_news :
             /\ get_latest_news(session_news, hn, gh, dev, pol) # {}
             /\ \A out \in get_latest_news(session_news, hn, gh, dev, pol) :
                   out.resp.status = 200 /\ out.resp.title # None
    /\ NewsAnswered => news_resp.status = 200 /\ news_resp.title # None

\* C5 witness: a get-fact request answered at its tenth draw.
C5_Witness == FactAnswered /\ fact_resp.status = 200 /\ fact_resp.draws = 10

\* C6: after K+1 records of pairwise distinct titles the first-recorded one
\* is absent and the window is the last K recorded titles, in recording
\* order (K = 5 for facts, 10 for news).
C6_AppendThenEvictOldest ==
    /\ (Len(fact_hist) >= 6 /\ NoDuplicates(LastK(fact_hist, 6))) =>
          /\ session_facts = LastK(fact_hist, 5)
          /\ fact_hist[Len(fact_hist) - 5] \notin Range(session_facts)
    /\ (Len(news_hist) >= 11 /\ NoDuplicates(Titles(LastK(news_hist, 11)))) =>
          /\ session_news = Titles(LastK(news_hist, 10))
          /\ news_hist[Len(news_hist) - 10].title \notin Range(session_news)

\* C6 witness: an eleventh distinct news title has been recorded by a
\* request of the explored part.
C6_Witness ==
    /\ NewsAnswered
    /\ Len(news_hist) >= 11
    /\ NoDuplicates(Titles(LastK(news_hist, 11)))

----------------------------------------------------------------------------
(* Strings of the image domain                                             *)
(*                                                                         *)
(* A query, a title or a header value is the sequence of its characters,   *)
(* so that lower(), title(), split(), replace() and the substring test are *)
(* computed.  A URL is a sequence of fragments: the code only compares     *)
(* URLs for equality.                                                      *)

letters_lower ==
    <<"a", "b", "c", "d", "e", "f", "g", "h", "i", "j", "k", "l", "m",
      "n", "o", "p", "q", "r", "s", "t", "u", "v", "w", "x", "y", "z">>

letters_upper ==
    <<"A", "B", "C", "D", "E", "F", "G", "H", "I", "J", "K", "L", "M",
      "N", "O", "P", "Q", "R", "S", "T", "U", "V", "W", "X", "Y", "Z">>

digits == <<"0", "1", "2", "3", "4", "5", "6", "7", "8", "9">>

IndexOf(c, t) == CHOOSE i \in 1..Len(t) : t[i] = c

chr_lower(c) ==
    IF c \in Range(letters_upper)
    THEN letters_lower[IndexOf(c, letters_upper)] ELSE c

chr_upper(c) ==
    IF c \in Range(letters_lower)
    THEN letters_upper[IndexOf(c, letters_lower)] ELSE c

chr_cased(c) == c \in Range(letters_lower) \cup Range(letters_upper)

\* str.lower()
str_lower(s) == [i \in 1..Len(s) |-> chr_lower(s[i])]

\* str.title(): a cased character is upper case after an uncased one (or at
\* the start) and lower case after a cased one
str_title(s) ==
    [i \in 1..Len(s) |->
        IF i > 1 /\ chr_cased(s[i - 1]) THEN chr_lower(s[i])
                                        ELSE chr_upper(s[i])]

\* str.replace(' ', '-')
str_replace_space(s) == [i \in 1..Len(s) |-> IF s[i] = " " THEN "-" ELSE s[i]]

\* sub in s
str_in(sub, s) ==
    \E i \in 1..(Len(s) - Len(sub) + 1) : SubSeq(s, i, i + Len(sub) - 1) = sub

\* str.split(): the maximal runs of characters other than white space
str_split(s) ==
    {SubSeq(s, i, j) : <<i, j>> \in
        {p \in (1..Len(s)) \X (1..Len(s)) :
            /\ p[1] <= p[2]
            /\ \A k \in p[1]..p[2] : s[k] # " "
            /\ (p[1] = 1 \/ s[p[1] - 1] = " ")
            /\ (p[2] = Len(s) \/ s[p[2] + 1] = " ")}}

\* s[:k]
str_take(s, k) == IF Len(s) > k THEN SubSeq(s, 1, k) ELSE s

\* int(s) of a string of decimal digits
RECURSIVE str_int(_)
str_int(s) ==
    IF s = << >> THEN 0
    ELSE 10 * str_int(SubSeq(s, 1, Len(s) - 1))
         + (IndexOf(s[Len(s)], digits) - 1)

\* int(s) raises ValueError
int_raises(s) == s = << >> \/ \E i \in 1..Len(s) : s[i] \notin Range(digits)

----------------------------------------------------------------------------
(* image_service.py: the image sources                                     *)
(*                                                                         *)
(* An image is [url, title, source]; the other keys of the dictionaries    *)
(* (thumbnail, source_url, author, width, height) are never read by        *)
(* search_images, validate_image or remove_duplicates.  Every image of the *)
(* explored calls has a url and a title that is a string.                  *)

\* Queries of the explored calls
q_butterfly == <<"b", "u", "t", "t", "e", "r", "f", "l", "y">>
q_tech_phone == <<"T", "e", "c", "h", " ", "P", "h", "o", "n", "e">>
q_car == <<"c", "a", "r">>
q_an_ox == <<"a", "n", " ", "o", "x">>

Queries == {q_butterfly, q_tech_phone, q_car, q_an_ox}

\* image_service.py:25
default_max_results == 20

\* Largest explicit max_results of the explored calls
MaxResults == 2

MaxResultsChoices == (0..MaxResults) \cup {default_max_results}

sfx_pixabay ==
    <<" ", "-", " ", "H", "i", "g", "h", " ", "Q", "u", "a", "l", "i", "t",
      "y", " ", "P", "h", "o", "t", "o">>

sfx_pexels ==
    <<" ", "-", " ", "P", "r", "o", "f", "e", "s", "s", "i", "o", "n", "a",
      "l", " ", "P", "h", "o", "t", "o", "g", "r", "a", "p", "h", "y">>

\* image_service.py:136-166: three generated items, no request is made
search_pixabay(query) ==
    LET query_clean == str_lower(str_replace_space(query))
    IN  [i \in 1..3 |->
            [url |-> <<"https://cdn.pixabay.com/photo/2023/0",
                       digits[i + 1], "/15/12/00/">>
                     \o query_clean
                     \o <<"-", <<"1000000", "1000001", "1000002">>[i],
                          ".jpg">>,
             title |-> str_title(query) \o sfx_pixabay,
             source |-> "Pixabay"]]

\* image_service.py:168-198: two generated items, no request is made
search_pexels(query) ==
    LET query_clean == str_lower(str_replace_space(query))
    IN  [i \in 1..2 |->
            [url |-> <<"https://images.pexels.com/photos/",
                       <<"2000000", "2000001">>[i], "/">>
                     \o query_clean
                     \o <<".jpeg?auto=compress&cs=tinysrgb&w=1260&h=750",
                          "&dpr=1">>,
             title |-> str_title(query) \o sfx_pexels,
             source |-> "Pexels"]]

url_unsplash == <<"https://images.unsplash.com/photo-1503376780353.jpg">>
url_wikimedia == <<"https://upload.wikimedia.org/a/ab/Monarch.JPG">>

alt_unsplash ==
    <<"r", "e", "d", " ", "c", "a", "r", " ", "a", "t", " ", "s", "u", "n",
      "s", "e", "t">>

file_wikimedia ==
    <<"F", "i", "l", "e", ":", "M", "o", "n", "a", "r", "c", "h", " ", "B",
      "u", "t", "t", "e", "r", "f", "l", "y", ".", "J", "P", "G">>

\* title.replace('File:', '') of image_service.py:312, for a title that
\* starts with the prefix and does not hold it again
strip_file_prefix(title) ==
    IF Len(title) >= 5 /\ SubSeq(title, 1, 5) = <<"F", "i", "l", "e", ":">>
    THEN SubSeq(title, 6, Len(title)) ELSE title

\* image_service.py:118-127: a photo whose alt_description is alt_unsplash
unsplash_photo ==
    [url |-> url_unsplash, title |-> alt_unsplash, source |-> "Unsplash"]

\* image_service.py:309-318: a file whose page title is file_wikimedia
wikimedia_file ==
    [url |-> url_wikimedia, title |-> strip_file_prefix(file_wikimedia),
     source |-> "Wikimedia Commons"]

alt_unsplash_nature ==
    <<"b", "u", "t", "t", "e", "r", "f", "l", "y", " ", "o", "n", " ", "a",
      " ", "l", "e", "a", "f">>

\* image_service.py:118-127: the photo of the curated nature item (350-352),
\* found by the search under the same 'regular' URL
unsplash_nature_photo ==
    [url |->
     <<"https://images.unsplash.com/photo-1444927714506-8492d94b5ba0?w=800">>,
     title |-> alt_unsplash_nature, source |-> "Unsplash"]

\* image_service.py:110: the answers to the search request; the body is the
\* list data['results'], each item with or without the key 'urls'
unsplash_responses ==
    {HttpRaises("ConnectionError", << >>), HttpRaises("Timeout", << >>),
     HttpResponse(403, << >>), HttpResponse(500, << >>),
     HttpResponse(200, << >>),
     HttpResponse(200, <<[urls |-> FALSE, photo |-> unsplash_photo]>>),
     HttpResponse(200, <<[urls |-> TRUE, photo |-> unsplash_photo]>>),
     HttpResponse(200, <<[urls |-> TRUE, photo |-> unsplash_nature_photo]>>)}

\* search_unsplash (image_service.py:104-134) when its request meets
\* response: an exception of the request, and the KeyError of an item
\* without 'urls', are caught at 131 and [] is returned at 134, as it is for
\* a status other than 200
search_unsplash_on(query, response) ==
    IF response.raises # "" THEN << >>
    ELSE IF response.status_code # 200 THEN << >>
    ELSE IF \E k \in 1..Len(response.json) : ~response.json[k].urls
         THEN << >>
         ELSE [k \in 1..Len(response.json) |-> response.json[k].photo]

\* image_service.py:104-134: the request fails or answers without results,
\* or it answers one photo
search_unsplash(query) ==
    {search_unsplash_on(query, response) : response \in unsplash_responses}

\* image_service.py:245
reddit_title_limit == 100

\* image_service.py:242-251: a post of r/pics that links to url and has no
\* title of its own
reddit_post(url, query) ==
    [url |-> url, title |-> str_take(query, reddit_title_limit),
     source |-> "Reddit r/pics"]

\* image_service.py:200-265: no post, or one post that links to an image
\* which another source serves as well
search_reddit(query) ==
    {<< >>,
     <<reddit_post(url_unsplash, query)>>,
     <<reddit_post(url_wikimedia, query)>>}

\* image_service.py:267-325: the request fails, or it answers one file
search_wikimedia(query) == {<< >>, <<wikimedia_file>>}

----------------------------------------------------------------------------
(* image_service.py: remove_duplicates                                     *)

\* image_service.py:334-337: the loop from position i on, with the set of
\* URLs seen and the list built so far
RECURSIVE dedup_loop(_, _, _, _)
dedup_loop(images, i, seen_urls, unique) ==
    IF i > Len(images) THEN unique
    ELSE IF images[i].url \notin seen_urls
         THEN dedup_loop(images, i + 1, seen_urls \cup {images[i].url},
                         Append(unique, images[i]))
         ELSE dedup_loop(images, i + 1, seen_urls, unique)

\* Mutant of remove_duplicates: every image is kept
remove_duplicates_KeepAll(images) == images

\* Mutant of remove_duplicates: the last image of each URL is kept
RECURSIVE remove_duplicates_KeepLast(_)
remove_duplicates_KeepLast(images) ==
    IF images = << >> THEN << >>
    ELSE IF \E j \in 2..Len(images) : images[j].url = images[1].url
         THEN remove_duplicates_KeepLast(Tail(images))
         ELSE <<images[1]>> \o remove_duplicates_KeepLast(Tail(images))

\* Mutant of remove_duplicates: one pass drops the second image of the first
\* repeated URL only
remove_duplicates_DropOne(images) ==
    LET dup == {j \in 1..Len(images) :
                   \E i \in 1..(j - 1) : images[i].url = images[j].url}
    IN  IF dup = {} THEN images
        ELSE LET j == CHOOSE k \in dup : \A m \in dup : k <= m
             IN  SubSeq(images, 1, j - 1) \o SubSeq(images, j + 1, Len(images))

\* image_service.py:327-339
remove_duplicates(images) == dedup_loop(images, 1, {}, << >>)

----------------------------------------------------------------------------
(* image_service.py: validate_image                                        *)

\* image_service.py:79
image_types ==
    {<<"i", "m", "a", "g", "e", "/", "j", "p", "e", "g">>,
     <<"i", "m", "a", "g", "e", "/", "j", "p", "g">>,
     <<"i", "m", "a", "g", "e", "/", "p", "n", "g">>,
     <<"i", "m", "a", "g", "e", "/", "g", "i", "f">>,
     <<"i", "m", "a", "g", "e", "/", "w", "e", "b", "p">>}

\* image_service.py:85
min_content_length == 5000

\* What the HEAD request of image_service.py:72 can do: raise, or answer a
\* status code with the content-type and content-length headers (<< >> for a
\* header that is absent)
Probe(raises, status_code, content_type, content_length) ==
    [raises |-> raises, status_code |-> status_code,
     content_type |-> content_type, content_length |-> content_length]

ProbeOutcomes ==
    {Probe(TRUE, 0, << >>, << >>),
     Probe(FALSE, 404, <<"i", "m", "a", "g", "e", "/", "j", "p", "e", "g">>,
           <<"9", "0", "2", "1", "0">>),
     Probe(FALSE, 200, <<"t", "e", "x", "t", "/", "h", "t", "m", "l">>,
           <<"9", "0", "2", "1", "0">>),
     Probe(FALSE, 200, << >>, <<"9", "0", "2", "1", "0">>),
     Probe(FALSE, 200, <<"i", "m", "a", "g", "e", "/", "j", "p", "e", "g">>,
           <<"4", "9", "9", "9">>),
     Probe(FALSE, 200, <<"i", "m", "a", "g", "e", "/", "j", "p", "e", "g">>,
           <<"5", "0", "0", "0">>),
     Probe(FALSE, 200, <<"I", "m", "a", "g", "e", "/", "P", "N", "G">>, << >>),
     Probe(FALSE, 200, <<"i", "m", "a", "g", "e", "/", "w", "e", "b", "p">>,
           <<"1", "2", "k", "b">>)}

\* Mutant of relevant: a query word of any length counts
relevant_AnyLength(image, query) ==
    \E word \in str_split(str_lower(query)) :
        str_in(word, str_lower(image.title))

\* image_service.py:90-94
relevant(image, query) ==
    \E word \in str_split(str_lower(query)) :
        Len(word) > 2 /\ str_in(word, str_lower(image.title))

\* The value of image['url'] for an image that has no 'url' key; << >> is the
\* URL of an image whose 'url' is '' or None
absent == <<"<no key>">>

\* image_service.py:72: the HEAD request is the first statement of the try
\* body; image['url'] raises KeyError before it when the key is absent
head_requests(image) == IF image.url = absent THEN 0 ELSE 1

\* image_service.py:72, 100-101: the KeyError of image['url'] is caught at
\* 100, and the f-string of the handler reads image['url'] again: that
\* KeyError leaves the function.  "" when nothing leaves it.
validate_image_raises(image) ==
    IF image.url = absent THEN "KeyError" ELSE ""

\* image_service.py:335: remove_duplicates reads image['url'] of every image
\* outside any try block, so that an image without the key makes it raise
\* KeyError, which search_images does not catch either (line 46)
remove_duplicates_raises(images) ==
    \E i \in 1..Len(images) : images[i].url = absent

\* image_service.py:66-102, for an image that has a 'url' key
validate_image(image, query, probe) ==
    IF probe.raises THEN FALSE
    ELSE IF probe.status_code # 200 THEN FALSE
    ELSE IF ~\E img_type \in image_types :
                 str_in(img_type, str_lower(probe.content_type))
         THEN FALSE
    ELSE IF probe.content_length # << >> /\ int_raises(probe.content_length)
         THEN FALSE
    ELSE IF probe.content_length # << >>
            /\ str_int(probe.content_length) < min_content_length
         THEN FALSE
    ELSE relevant(image, query)

----------------------------------------------------------------------------
(* image_service.py: get_curated_images                                    *)

\* image_service.py:349
nature_words ==
    {<<"b", "u", "t", "t", "e", "r", "f", "l", "y">>,
     <<"b", "i", "r", "d">>, <<"f", "l", "o", "w", "e", "r">>,
     <<"n", "a", "t", "u", "r", "e">>, <<"a", "n", "i", "m", "a", "l">>}

\* image_service.py:364
tech_words ==
    {<<"c", "o", "m", "p", "u", "t", "e", "r">>,
     <<"t", "e", "c", "h", "n", "o", "l", "o", "g", "y">>,
     <<"l", "a", "p", "t", "o", "p">>, <<"p", "h", "o", "n", "e">>,
     <<"t", "e", "c", "h">>}

\* image_service.py:379
landscape_words ==
    {<<"m", "o", "u", "n", "t", "a", "i", "n">>,
     <<"l", "a", "n", "d", "s", "c", "a", "p", "e">>,
     <<"s", "u", "n", "s", "e", "t">>, <<"o", "c", "e", "a", "n">>,
     <<"f", "o", "r", "e", "s", "t">>}

sfx_nature ==
    <<" ", "-", " ", "N", "a", "t", "u", "r", "e", " ", "P", "h", "o", "t",
      "o", "g", "r", "a", "p", "h", "y">>

sfx_technology ==
    <<" ", "-", " ", "T", "e", "c", "h", "n", "o", "l", "o", "g", "y">>

sfx_landscape ==
    <<" ", "-", " ", "L", "a", "n", "d", "s", "c", "a", "p", "e">>

url_nature ==
    <<"https://images.unsplash.com/photo-1444927714506-8492d94b5ba0?w=800">>

url_technology ==
    <<"https://images.unsplash.com/photo-1518709268805-4e9042af2176?w=800">>

url_landscape ==
    <<"https://images.unsplash.com/photo-1506905925346-21bda4d32df4?w=800">>

\* image_service.py:350-361, 365-376, 380-391: the one item of a category
curated(url, query, sfx) ==
    <<[url |-> url, title |-> str_title(query) \o sfx,
       source |-> "Curated Collection"]>>

\* Mutant of get_curated_images: no category has an image
get_curated_images_Empty(query) == << >>

\* image_service.py:341-393
get_curated_images(query) ==
    LET query_lower == str_lower(query)
    IN  IF \E word \in nature_words : str_in(word, query_lower)
        THEN curated(url_nature, query, sfx_nature)
        ELSE IF \E word \in tech_words : str_in(word, query_lower)
        THEN curated(url_technology, query, sfx_technology)
        ELSE IF \E word \in landscape_words : str_in(word, query_lower)
        THEN curated(url_landscape, query, sfx_landscape)
        ELSE << >>

----------------------------------------------------------------------------
(* image_service.py: search_images                                         *)

\* image_service.py:57
curated_threshold == 5

\* Mutant of fallback_loop: the loop does not look at max_results
fallback_loop_NoCap(validated, fallback_images, i, max_results) ==
    validated \o SubSeq(fallback_images, i, Len(fallback_images))

\* image_service.py:59-62: the loop from position i of fallback_images on
RECURSIVE fallback_loop(_, _, _, _)
fallback_loop(validated, fallback_images, i, max_results) ==
    IF i > Len(fallback_images) THEN validated
    ELSE IF Len(validated) >= max_results THEN validated
    ELSE fallback_loop(Append(validated, fallback_images[i]),
                       fallback_images, i + 1, max_results)

\* A call search_images(query, max_results) begins
ImgInit ==
    /\ img_query \in Queries
    /\ img_max \in MaxResultsChoices
    /\ all_images = << >>
    /\ unique_images = << >>
    /\ img_idx = 0
    /\ validated_images = << >>
    /\ img_pc = "sources"
    /\ img_result = << >>
    /\ img_log = << >>
    /\ FactIdle
    /\ NewsIdle
    /\ DedupIdle
    /\ ValidateIdle
    /\ ViewIdle
    /\ SessIdle
    /\ SourcesIdle
    /\ MaterializeIdle
    /\ FallbackIdle

\* Mutant of extend_all: each result is put in front of the earlier ones
RECURSIVE extend_all_InFront(_)
extend_all_InFront(sources) ==
    IF sources = << >> THEN << >>
    ELSE extend_all_InFront(Tail(sources)) \o Head(sources)

\* image_service.py:40-43: the non-empty results are appended to all_images
\* in the order of the list
RECURSIVE extend_all(_)
extend_all(sources) ==
    IF sources = << >> THEN << >>
    ELSE IF Head(sources) # << >>
         THEN Head(sources) \o extend_all(Tail(sources))
         ELSE extend_all(Tail(sources))

\* image_service.py:29-43: the five sources are searched in the order of the
\* list and their results are concatenated
ImgSources ==
    /\ img_pc = "sources"
    /\ \E un \in search_unsplash(img_query) :
       \E rd \in search_reddit(img_query) :
       \E wk \in search_wikimedia(img_query) :
          all_images' = extend_all(<<un, search_pixabay(img_query),
                                     search_pexels(img_query), rd, wk>>)
    /\ img_pc' = "dedup"
    /\ UNCHANGED <<img_query, img_max, unique_images, img_idx,
                   validated_images, img_result, img_log,
                   nonImgVars>>

\* Where the loop of image_service.py:50 goes after the image at position i
\* when it does not break
AfterImage(i) == IF i >= Len(unique_images) THEN "curated" ELSE "validate"

\* image_service.py:46-50
ImgDedup ==
    /\ img_pc = "dedup"
    /\ unique_images' = remove_duplicates(all_images)
    /\ validated_images' = << >>
    /\ img_idx' = 1
    /\ img_pc' = IF remove_duplicates(all_images) = << >> THEN "curated"
                                                          ELSE "validate"
    /\ UNCHANGED <<img_query, img_max, all_images, img_result, img_log,
                   nonImgVars>>

\* image_service.py:51-54: the image is probed and accepted
ImgAccept ==
    /\ img_pc = "validate"
    /\ \E probe \in ProbeOutcomes :
          validate_image(unique_images[img_idx], img_query, probe)
    /\ validated_images' = Append(validated_images, unique_images[img_idx])
    /\ img_log' = Append(img_log, TRUE)
    /\ IF Len(validated_images) + 1 >= img_max
       THEN img_pc' = "curated" /\ img_idx' = img_idx
       ELSE img_pc' = AfterImage(img_idx) /\ img_idx' = img_idx + 1
    /\ UNCHANGED <<img_query, img_max, all_images, unique_images,
                   img_result, nonImgVars>>

\* image_service.py:51: the image is probed and rejected
ImgReject ==
    /\ img_pc = "validate"
    /\ \E probe \in ProbeOutcomes :
          ~validate_image(unique_images[img_idx], img_query, probe)
    /\ img_pc' = AfterImage(img_idx)
    /\ img_idx' = img_idx + 1
    /\ img_log' = Append(img_log, FALSE)
    /\ UNCHANGED <<img_query, img_max, all_images, unique_images,
                   validated_images, img_result, nonImgVars>>

\* image_service.py:56-64
ImgCurated ==
    /\ img_pc = "curated"
    /\ LET out == IF Len(validated_images) < curated_threshold
                  THEN fallback_loop(validated_images,
                                     get_curated_images(img_query), 1,
                                     img_max)
                  ELSE validated_images
       IN  validated_images' = out /\ img_result' = out
    /\ img_pc' = "done"
    /\ UNCHANGED <<img_query, img_max, all_images, unique_images, img_idx,
                   img_log, nonImgVars>>

ImgNext == ImgSources \/ ImgDedup \/ ImgAccept \/ ImgReject \/ ImgCurated

SpecImages == ImgInit /\ [][ImgNext]_vars

----------------------------------------------------------------------------
(* remove_duplicates on its own                                            *)

\* Longest list given to remove_duplicates
MaxDedupLen == 4

\* Images of three URLs, two of them served by two sources
DedupPool ==
    {unsplash_photo, reddit_post(url_unsplash, q_car),
     wikimedia_file, reddit_post(url_wikimedia, q_car),
     search_pixabay(q_car)[1]}

\* The lists of at most MaxDedupLen images of the pool
DedupInputs == UNION {[1..n -> DedupPool] : n \in 0..MaxDedupLen}

\* A call remove_duplicates(images) begins
DedupInit ==
    /\ dd_in \in DedupInputs
    /\ dd_out = << >>
    /\ dd_again = << >>
    /\ dd_pc = "in"
    /\ FactIdle
    /\ NewsIdle
    /\ ImgIdle
    /\ ValidateIdle
    /\ ViewIdle
    /\ SessIdle
    /\ SourcesIdle
    /\ MaterializeIdle
    /\ FallbackIdle

\* image_service.py:327-339 applied to the list
DedupOnce ==
    /\ dd_pc = "in"
    /\ dd_out' = remove_duplicates(dd_in)
    /\ dd_pc' = "once"
    /\ UNCHANGED <<dd_in, dd_again, nonDdVars>>

\* image_service.py:327-339 applied to the list it returned
DedupTwice ==
    /\ dd_pc = "once"
    /\ dd_again' = remove_duplicates(dd_out)
    /\ dd_pc' = "twice"
    /\ UNCHANGED <<dd_in, dd_out, nonDdVars>>

DedupNext == DedupOnce \/ DedupTwice

SpecDedup == DedupInit /\ [][DedupNext]_vars

----------------------------------------------------------------------------
(* Properties of remove_duplicates *)

Urls(images) == {images[i].url : i \in 1..Len(images)}

\* The positions of images that hold the first image of their URL
FirstPositions(images) ==
    {i \in 1..Len(images) :
        \A j \in 1..(i - 1) : images[j].url # images[i].url}

\* The k-th smallest element of a set of positions
KthOf(P, k) == CHOOSE i \in P : Cardinality({j \in P : j <= i}) = k

HasRepeatedUrl(images) ==
    \E i, j \in 1..Len(images) : i # j /\ images[i].url = images[j].url

\* C7: remove_duplicates is order-preserving and stable: the list it returns
\* is the subsequence of the first images of each URL of its argument, each
\* URL of the argument appears in it exactly once, and it is strictly
\* shorter than the argument whenever the argument repeats a URL.
C7_FirstOccurrencesKept ==
    dd_pc \in {"once", "twice"} =>
        LET P == FirstPositions(dd_in)
        IN  /\ Len(dd_out) = Cardinality(P)
            /\ \A k \in 1..Len(dd_out) : dd_out[k] = dd_in[KthOf(P, k)]
            /\ \A u \in Urls(dd_in) :
                  Cardinality({k \in 1..Len(dd_out) : dd_out[k].url = u}) = 1
            /\ Urls(dd_out) = Urls(dd_in)
            /\ HasRepeatedUrl(dd_in) => Len(dd_out) < Len(dd_in)

\* A list whose repeated URL comes with two different images, apart from
\* each other, has been deduplicated to the first of them
C7_Witness ==
    /\ dd_pc = "once"
    /\ \E i, j \in 1..Len(dd_in) :
          /\ i + 1 < j
          /\ dd_in[i].url = dd_in[j].url
          /\ dd_in[i] # dd_in[j]
          /\ dd_in[i] \in Range(dd_out)
          /\ dd_in[j] \notin Range(dd_out)
    /\ Len(dd_out) >= 2
    /\ Len(dd_out) < Len(dd_in)

\* C8: deduplication is idempotent: remove_duplicates applied to the list
\* that remove_duplicates returned gives that list again.
C8_DedupIdempotent ==
    dd_pc = "twice" => dd_again = dd_out

\* A list with a URL three times over has been deduplicated twice
C8_Witness ==
    /\ dd_pc = "twice"
    /\ \E i, j, k \in 1..Len(dd_in) :
          i < j /\ j < k /\ dd_in[i].url = dd_in[j].url
                /\ dd_in[j].url = dd_in[k].url
    /\ Len(dd_out) >= 2
    /\ dd_again = dd_out

----------------------------------------------------------------------------
(* Properties of search_images *)

ImgReturned == img_pc = "done"

OnlyCurated(images) ==
    \A i \in 1..Len(images) : images[i].source = "Curated Collection"

\* C9: for every max_results >= 0, every combination of source results and
\* every outcome of the validation, the list search_images returns has at
\* most max_results images.
C9_AtMostMaxResults ==
    ImgReturned /\ img_max >= 0 => Len(img_result) <= img_max

\* C10: for max_results >= 1 and every query, the list search_images returns
\* is not empty when every source other than the curated one failed or had
\* all its images rejected.
C10_NeverEmpty ==
    ImgReturned /\ img_max >= 1 /\ OnlyCurated(img_result)
        => img_result # << >>

\* The query holds a keyword of one of the three curated categories
HasCuratedKeyword(query) ==
    \E word \in nature_words \cup tech_words \cup landscape_words :
        str_in(word, str_lower(query))

\* No image of the call was accepted by validate_image
NothingAccepted == \A k \in 1..Len(img_log) : ~img_log[k]

\* C11 as stated: for the query "butterfly", and for any query that holds a
\* keyword of a curated category, when no image of the sources passes the
\* validation (or the sources return nothing), search_images returns at
\* least one image and every image it returns has the source "Curated
\* Collection".  Stated for every max_results, 0 included.
C11_CuratedOnFailureAnyMax ==
    ImgReturned /\ HasCuratedKeyword(img_query) /\ NothingAccepted
        => /\ Len(img_result) >= 1
           /\ \A i \in 1..Len(img_result) :
                 img_result[i].source = "Curated Collection"

\* C11, amended: the same for max_results >= 1; with max_results = 0 the
\* loop of image_service.py:59-62 breaks before its first append and the
\* list returned is empty.
C11_CuratedOnFailure ==
    ImgReturned /\ img_max >= 1 /\ HasCuratedKeyword(img_query)
                /\ NothingAccepted
        => /\ Len(img_result) >= 1
           /\ \A i \in 1..Len(img_result) :
                 img_result[i].source = "Curated Collection"

\* The call for "butterfly" has probed and rejected every image of the
\* sources, one of them from outside the generated ones, and has returned
C11_Witness ==
    /\ ImgReturned
    /\ img_query = q_butterfly
    /\ img_max >= 1
    /\ NothingAccepted
    /\ Len(img_log) = Len(unique_images)
    /\ Len(unique_images) > 5
    /\ Len(img_result) = 1

----------------------------------------------------------------------------
(* validate_image on its own *)

\* str(n) of a natural number: the content-length header of a server that
\* reports the size of the media
RECURSIVE int_str(_)
int_str(n) ==
    IF n < 10 THEN <<digits[n + 1]>>
    ELSE int_str(n \div 10) \o <<digits[(n % 10) + 1]>>

q_red_car == <<"R", "e", "d", " ", "C", "A", "R">>

t_an_ox == <<"A", "n", " ", "O", "x">>

\* Queries and titles of the explored calls; << >> is the title of an image
\* that has no 'title' key (image.get('title', ''), image_service.py:91)
VlQueries == Queries \cup {q_red_car}

VlTitles ==
    {str_title(q_car) \o sfx_pixabay, alt_unsplash,
     strip_file_prefix(file_wikimedia), t_an_ox, << >>}

VlImages ==
    {[url |-> url_unsplash, title |-> t, source |-> "Unsplash"] :
        t \in VlTitles}
    \cup
    {[url |-> u, title |-> str_title(q_car) \o sfx_pixabay,
      source |-> "Unsplash"] : u \in {absent, << >>}}

\* Sizes in bytes of the media behind the URL
MediaSizes == {100, 4999, 5000, 90210}

\* What the HEAD request can do for a media of the given size: raise, answer
\* an error status, or answer 200 with a content-type and with the size, no
\* size, or a size that is not a number
VlProbes(bytes) ==
    {Probe(TRUE, 0, << >>, << >>),
     Probe(FALSE, 404, <<"i", "m", "a", "g", "e", "/", "j", "p", "e", "g">>,
           int_str(bytes)),
     Probe(FALSE, 200, <<"t", "e", "x", "t", "/", "h", "t", "m", "l">>,
           int_str(bytes)),
     Probe(FALSE, 200, <<"i", "m", "a", "g", "e", "/", "j", "p", "e", "g">>,
           int_str(bytes)),
     Probe(FALSE, 200, <<"I", "m", "a", "g", "e", "/", "P", "N", "G">>, << >>),
     Probe(FALSE, 200, <<"i", "m", "a", "g", "e", "/", "w", "e", "b", "p">>,
           int_str(bytes) \o <<" ", "B">>)}

\* A call validate_image(image, query) begins
ValidateInit ==
    /\ vl_image \in VlImages
    /\ vl_query \in VlQueries
    /\ vl_bytes \in MediaSizes
    /\ vl_probe \in IF vl_image.url \in {absent, << >>}
                     THEN {Probe(TRUE, 0, << >>, << >>)}
                     ELSE VlProbes(vl_bytes)
    /\ vl_result = FALSE
    /\ vl_heads = 0
    /\ vl_raised = ""
    /\ vl_pc = "call"
    /\ FactIdle
    /\ NewsIdle
    /\ ImgIdle
    /\ DedupIdle
    /\ ViewIdle
    /\ SessIdle
    /\ SourcesIdle
    /\ MaterializeIdle
    /\ FallbackIdle

\* image_service.py:66-102: a call that returns
ValidateCall ==
    /\ vl_pc = "call"
    /\ validate_image_raises(vl_image) = ""
    /\ vl_result' = validate_image(vl_image, vl_query, vl_probe)
    /\ vl_heads' = head_requests(vl_image)
    /\ vl_pc' = "done"
    /\ UNCHANGED <<vl_image, vl_query, vl_bytes, vl_probe, vl_raised,
                   nonVlVars>>

\* image_service.py:72, 100-101: a call that an exception leaves
ValidateRaise ==
    /\ vl_pc = "call"
    /\ validate_image_raises(vl_image) # ""
    /\ vl_raised' = validate_image_raises(vl_image)
    /\ vl_heads' = head_requests(vl_image)
    /\ vl_pc' = "raised"
    /\ UNCHANGED <<vl_image, vl_query, vl_bytes, vl_probe, vl_result,
                   nonVlVars>>

ValidateNext == ValidateCall \/ ValidateRaise

SpecValidate == ValidateInit /\ [][ValidateNext]_vars

----------------------------------------------------------------------------
(* Properties of validate_image *)

ValidateReturned == vl_pc = "done"

\* sub occurs in s when the case of the letters is ignored
CaseInsensitiveIn(sub, s) ==
    \E i \in 1..(Len(s) - Len(sub) + 1) :
        \A k \in 1..Len(sub) : chr_lower(sub[k]) = chr_lower(s[i + k - 1])

\* The tokens of the query that have more than two characters
LongTokens(query) == {w \in str_split(query) : Len(w) > 2}

\* The HEAD request passes the tests of status, content type and size
ProbePasses(probe) ==
    /\ ~probe.raises
    /\ probe.status_code = 200
    /\ probe.content_type \in
          {<<"i", "m", "a", "g", "e", "/", "j", "p", "e", "g">>,
           <<"I", "m", "a", "g", "e", "/", "P", "N", "G">>}
    /\ probe.content_length \in {<< >>, int_str(5000), int_str(90210)}

\* C12: validate_image rejects every image whose title holds, whatever the
\* case of the letters, none of the tokens of the query that are longer than
\* 2 characters; a query whose tokens all have 2 characters or fewer has
\* every image rejected, whatever its title.
C12_IrrelevantRejected ==
    ValidateReturned =>
        /\ (\A w \in LongTokens(vl_query) :
                ~CaseInsensitiveIn(w, vl_image.title)) => ~vl_result
        /\ (\A w \in str_split(vl_query) : Len(w) <= 2) => ~vl_result

\* An image whose title holds both tokens of the query "an ox" has been
\* rejected although its probe passes every other test
C12_Witness ==
    /\ ValidateReturned
    /\ vl_query = q_an_ox
    /\ vl_image.title = t_an_ox
    /\ \A w \in str_split(vl_query) : CaseInsensitiveIn(w, vl_image.title)
    /\ ProbePasses(vl_probe)
    /\ ~vl_result

\* C13: validate_image rejects every image whose media is smaller than the
\* minimum size (5000 bytes), whatever its relevance and whatever the probe
\* answers, a probe that reports no size included.
C13_SmallMediaRejected ==
    ValidateReturned /\ vl_bytes < min_content_length => ~vl_result

----------------------------------------------------------------------------
(* image_search/views_new.py and views_backup.py: the search-images view,  *)
(* with AIImageGenerator of ai_image_generator.py behind views_backup      *)

\* views_new.py:38, views_backup.py:39
num_images == 6

\* Mutant of str_strip: nothing is removed
str_strip_Nothing(s) == s

\* str.strip(): white space is removed at both ends
str_strip(s) ==
    LET kept == {i \in 1..Len(s) : s[i] # " "}
    IN  IF kept = {} THEN << >>
        ELSE SubSeq(s, CHOOSE i \in kept : \A j \in kept : i <= j,
                       CHOOSE i \in kept : \A j \in kept : j <= i)

\* The body of a request: text that is not JSON, or a JSON object with no
\* 'query' key, with a 'query' that is not a string, or with a string
Body(json, has_query, is_str, query) ==
    [json |-> json, has_query |-> has_query, is_str |-> is_str,
     query |-> query]

RequestBodies ==
    {Body(FALSE, FALSE, FALSE, << >>),
     Body(TRUE, FALSE, FALSE, << >>),
     Body(TRUE, TRUE, FALSE, << >>),
     Body(TRUE, TRUE, TRUE, << >>),
     Body(TRUE, TRUE, TRUE, <<" ", " ", " ">>),
     Body(TRUE, TRUE, TRUE, <<" ", "c", "a", "r", " ">>),
     Body(TRUE, TRUE, TRUE, q_butterfly)}

ErrorResponse(status) ==
    [status |-> status, error |-> TRUE, total_results |-> 0,
     images |-> << >>]

\* views_new.py:89-93, views_backup.py:41-45
ImagesResponse(images) ==
    [status |-> 200, error |-> FALSE, total_results |-> Len(images),
     images |-> images]

\* views_new.py:66-72, ai_image_generator.py:75-85 and 194-204: the image
\* saved for index i of a loop; within one request the file name is a digest
\* of prompt and index
GeneratedImage(loop, prompt, i) ==
    [url |-> <<"/static/generated_images/", loop, prompt, i>>,
     source |-> IF loop = "variation" THEN "AI Variation Generator"
                ELSE "Pollinations.ai (Stable Diffusion)"]

\* A download of the history: its loop, its index and whether the image
\* was saved
Fetch(loop, i, saved) == [loop |-> loop, index |-> i, saved |-> saved]

\* A request to the view begins
ViewInit ==
    /\ iv_view \in {"views_new", "views_backup"}
    /\ iv_body \in RequestBodies
    /\ iv_prompt = << >>
    /\ iv_phase = "parse"
    /\ iv_i = 0
    /\ iv_images = << >>
    /\ iv_fetches = << >>
    /\ iv_resp = [status |-> 0, error |-> FALSE, total_results |-> 0,
                  images |-> << >>]
    /\ FactIdle
    /\ NewsIdle
    /\ ImgIdle
    /\ DedupIdle
    /\ ValidateIdle
    /\ SessIdle
    /\ SourcesIdle
    /\ MaterializeIdle
    /\ FallbackIdle

\* views_new.py:26-27, views_backup.py:26-27: json.loads or strip() raises
ParseRaises(body) == ~body.json \/ (body.has_query /\ ~body.is_str)

\* views_new.py:27: data.get('query', '').strip()
PromptOf(body) == IF body.has_query THEN str_strip(body.query) ELSE << >>

\* views_new.py:26-32 and 95-103, views_backup.py:26-33 and 47-52: the
\* request is answered before any download
ViewReject ==
    /\ iv_phase = "parse"
    /\ \/ /\ ~iv_body.json
          /\ iv_resp' = ErrorResponse(IF iv_view = "views_new" THEN 400
                                                               ELSE 500)
       \/ /\ iv_body.json /\ ParseRaises(iv_body)
          /\ iv_resp' = ErrorResponse(500)
       \/ /\ ~ParseRaises(iv_body) /\ PromptOf(iv_body) = << >>
          /\ iv_resp' = ErrorResponse(400)
    /\ iv_phase' = "done"
    /\ UNCHANGED <<iv_view, iv_body, iv_prompt, iv_i, iv_images, iv_fetches,
                   nonIvVars>>

\* views_new.py:26-37, views_backup.py:26-39 and ai_image_generator.py:
\* 31-34, 50-55: the prompt is not empty, the first loop begins
ViewAccept ==
    /\ iv_phase = "parse"
    /\ ~ParseRaises(iv_body)
    /\ PromptOf(iv_body) # << >>
    /\ iv_prompt' = PromptOf(iv_body)
    /\ iv_phase' = "pollinations"
    /\ iv_i' = 0
    /\ iv_images' = << >>
    /\ UNCHANGED <<iv_view, iv_body, iv_fetches, iv_resp, nonIvVars>>

\* Number of images the running loop is to attempt: views_new.py:38,
\* ai_image_generator.py:55 with num_images of :34, and :176 with the
\* remaining of :39
LoopLength(loop, images) ==
    IF loop = "pollinations" THEN num_images
    ELSE num_images - Cardinality({k \in 1..Len(images) :
            images[k].source = "Pollinations.ai (Stable Diffusion)"})

\* Where the request goes after index i of the running loop, with the images
\* it then has: the next index, or after the last index the response
\* (views_new.py:82) or the variations (ai_image_generator.py:38-41)
AfterIndex(view, loop, i, images) ==
    IF i + 1 < LoopLength(loop, images)
    THEN [phase |-> loop, i |-> i + 1]
    ELSE IF view = "views_backup" /\ loop = "pollinations"
            /\ Len(images) < num_images
         THEN [phase |-> "variations", i |-> 0]
         ELSE [phase |-> "respond", i |-> i + 1]

\* Mutant of AfterFailure: a failed download ends the request's downloads
AfterFailure_Abort(view, loop, i, images) ==
    [phase |-> "respond", i |-> i + 1]

\* Mutant of AfterFailure: a failed download is made again
AfterFailure_Retry(view, loop, i, images) == [phase |-> loop, i |-> i]

\* views_new.py:75-80, ai_image_generator.py:87-89 and 206-208: a failed
\* download is logged and the loop continues
AfterFailure(view, loop, i, images) == AfterIndex(view, loop, i, images)

InLoop == iv_phase \in {"pollinations", "variations"}

LoopName == IF iv_phase = "variations" THEN "variation" ELSE "pollinations"

\* views_new.py:50-74, ai_image_generator.py:66-85 and 185-204: the download
\* answers 200, the file is written and the image is appended
ViewMaterialize ==
    /\ InLoop
    /\ LET images == Append(iv_images,
                            GeneratedImage(LoopName, iv_prompt, iv_i))
           next == AfterIndex(iv_view, iv_phase, iv_i, images)
       IN  /\ iv_images' = images
           /\ iv_phase' = next.phase
           /\ iv_i' = next.i
    /\ iv_fetches' = Append(iv_fetches, Fetch(iv_phase, iv_i, TRUE))
    /\ UNCHANGED <<iv_view, iv_body, iv_prompt, iv_resp, nonIvVars>>

\* views_new.py:51 and 75-80, ai_image_generator.py:67 and 87-89, 186 and
\* 206-208: the download answers a status other than 200, or the download
\* or the write of the file raises; nothing is appended, the loop continues
ViewMaterializeFails ==
    /\ InLoop
    /\ iv_fetches' = Append(iv_fetches, Fetch(iv_phase, iv_i, FALSE))
    /\ LET next == AfterFailure(iv_view, iv_phase, iv_i, iv_images)
       IN  /\ iv_phase' = next.phase
           /\ iv_i' = next.i
    /\ UNCHANGED <<iv_view, iv_body, iv_prompt, iv_images, iv_resp,
                   nonIvVars>>

\* views_new.py:82-93; views_backup.py:41-45 with ai_image_generator.py:43
ViewRespond ==
    /\ iv_phase = "respond"
    /\ iv_resp' = IF iv_view = "views_new"
                  THEN IF iv_images = << >> THEN ErrorResponse(500)
                       ELSE ImagesResponse(iv_images)
                  ELSE ImagesResponse(str_take(iv_images, num_images))
    /\ iv_phase' = "done"
    /\ UNCHANGED <<iv_view, iv_body, iv_prompt, iv_i, iv_images, iv_fetches,
                   nonIvVars>>

ViewNext ==
    \/ ViewReject
    \/ ViewAccept
    \/ ViewMaterialize
    \/ ViewMaterializeFails
    \/ ViewRespond

SpecImageView == ViewInit /\ [][ViewNext]_vars

----------------------------------------------------------------------------
(* Properties of the search-images view *)

ViewAnswered == iv_phase = "done"

\* The body is JSON and its query is absent, empty or white space only
EmptyQuery(body) ==
    /\ body.json
    /\ \/ ~body.has_query
       \/ body.is_str /\ \A k \in 1..Len(body.query) : body.query[k] = " "

\* The body is JSON and its query is a string with a character other than
\* white space
NonEmptyQuery(body) ==
    /\ body.json /\ body.has_query /\ body.is_str
    /\ \E k \in 1..Len(body.query) : body.query[k] # " "

\* C14: a search-images request whose query is empty, or white space only,
\* is answered with status 400 and a body that holds an error field, and no
\* download is attempted and no image saved for it.
C14_EmptyQueryRejected ==
    EmptyQuery(iv_body) =>
        /\ iv_fetches = << >>
        /\ iv_images = << >>
        /\ ViewAnswered => iv_resp.status = 400 /\ iv_resp.error

\* A request whose query is white space only has been answered by
\* views_backup
C14_Witness ==
    /\ ViewAnswered
    /\ iv_view = "views_backup"
    /\ iv_body.is_str
    /\ iv_body.query # << >>
    /\ EmptyQuery(iv_body)
    /\ iv_resp.status = 400

\* C15: a search-images request with a non-empty query is answered with
\* status 500 and an error body exactly when no image was saved, and
\* otherwise with status 200 and total_results equal to the number of the
\* images returned, which is at least 1.
C15_ErrorIffNoImage ==
    ViewAnswered /\ NonEmptyQuery(iv_body) =>
        IF iv_images = << >>
        THEN iv_resp.status = 500 /\ iv_resp.error
        ELSE /\ iv_resp.status = 200
             /\ ~iv_resp.error
             /\ iv_resp.total_results = Len(iv_resp.images)
             /\ iv_resp.total_results >= 1

\* The downloads of the first loop in the history, and the images they saved
FirstLoop == SelectSeq(iv_fetches, LAMBDA f : f.loop = "pollinations")

FirstLoopImages ==
    SelectSeq(iv_images,
              LAMBDA im : im.source = "Pollinations.ai (Stable Diffusion)")

\* C16: a download that fails (status other than 200, or an exception) for
\* one index does not abort the other indices: once the loop is over every
\* index 0..5 has been attempted, in order, and the images of the loop are
\* exactly those of the indices whose download was saved, in index order.
C16_FailureDoesNotAbort ==
    iv_phase \in {"variations", "respond", "done"} /\ iv_prompt # << >> =>
        /\ Len(FirstLoop) = num_images
        /\ \A k \in 1..Len(FirstLoop) : FirstLoop[k].index = k - 1
        /\ LET saved == SelectSeq(FirstLoop, LAMBDA f : f.saved)
           IN  /\ Len(FirstLoopImages) = Len(saved)
               /\ \A k \in 1..Len(saved) :
                     FirstLoopImages[k] =
                        GeneratedImage("pollinations", iv_prompt,
                                       saved[k].index)

\* The first download failed, later ones were saved, and views_new answered
C16_Witness ==
    /\ ViewAnswered
    /\ iv_view = "views_new"
    /\ Len(FirstLoop) = num_images
    /\ ~FirstLoop[1].saved
    /\ FirstLoop[2].saved
    /\ ~FirstLoop[3].saved
    /\ FirstLoop[num_images].saved
    /\ Len(iv_resp.images) = 2

----------------------------------------------------------------------------
(* Concurrent requests on the sessions of two consumers.  request.session   *)
(* is an object of the request: the stored session is loaded into it at the *)
(* first access (views.py:39, 89), the view works on that copy (61, 100)    *)
(* and the copy is written back whole when the response goes out.  Nothing  *)
(* in views.py takes a lock between the load and the write.                 *)

Consumers == {"A", "B"}

Reqs == {"r1", "r2"}

Kinds == {"fact", "news"}

\* The views a request goes to: get_extinct_fact, get_latest_news and the
\* search_images of image_search
ReqKinds == Kinds \cup {"image"}

\* Mutant of SessionKey: every consumer is given the same session
SessionKey_Shared(consumer) == "A"

\* views.py:36-37, 86-87: the session of a consumer is the one created for
\* it, found again by the session key of its cookie
SessionKey(consumer) == consumer

\* The sessions left by earlier requests of the two consumers
InitialStore ==
    [k \in {SessionKey(c) : c \in Consumers} |->
        IF k = SessionKey("A")
        THEN [recent_facts |-> FactSeed(2),
              recent_news  |-> NewsSeed(NewsRunB, 2)]
        ELSE [recent_facts |-> FactSeed(3),
              recent_news  |-> NewsSeed(NewsRunA, 2)]]

\* The session object of a request before its first access
NotLoaded == [recent_facts |-> << >>, recent_news |-> << >>]

\* get_extinct_fact, views.py:43-65, from attempt att on, the service's
\* recent list being one of svcs: the titles the loop can serve
RECURSIVE get_extinct_fact_titles(_, _, _)
get_extinct_fact_titles(att, svcs, window) ==
    IF att >= max_attempts \/ svcs = {}
    THEN {}
    ELSE LET outs == UNION {FactsService_get_extinct_fact(s) : s \in svcs}
             accepted == {o \in outs : AcceptFact(o.fact, window, att)}
             retried  == outs \ accepted
         IN  {o.fact : o \in accepted}
             \cup get_extinct_fact_titles(att + 1,
                                          {o.recent : o \in retried}, window)

SessInit ==
    /\ cc_store = InitialStore
    /\ \A c \in Consumers :
          FactSeedOk(Len(InitialStore[SessionKey(c)].recent_facts))
    /\ NewsSeedOk(NewsRunB, 2)
    /\ NewsSeedOk(NewsRunA, 2)
    /\ cc_req \in [Reqs -> {[consumer |-> c, kind |-> k, pc |-> "new",
                             session |-> NotLoaded, title |-> ""] :
                               c \in Consumers, k \in ReqKinds}]
    /\ FactIdle
    /\ NewsIdle
    /\ ImgIdle
    /\ DedupIdle
    /\ ValidateIdle
    /\ ViewIdle
    /\ SourcesIdle
    /\ MaterializeIdle
    /\ FallbackIdle

\* views.py:39, 89: the first access of request.session loads the stored
\* session of the request's session key
SessLoad(r) ==
    /\ cc_req[r].pc = "new"
    /\ cc_req[r].kind \in Kinds
    /\ cc_req' = [cc_req EXCEPT
                    ![r].pc = "loaded",
                    ![r].session = cc_store[SessionKey(cc_req[r].consumer)]]
    /\ UNCHANGED <<cc_store, nonCcVars>>

\* The response goes out: the session object of the request replaces the
\* stored session of its key
SessSave(r, session, title) ==
    /\ cc_store' = [cc_store EXCEPT
                      ![SessionKey(cc_req[r].consumer)] = session]
    /\ cc_req' = [cc_req EXCEPT ![r].pc = "done", ![r].session = session,
                                ![r].title = title]
    /\ UNCHANGED nonCcVars

\* views.py:41-65: get_extinct_fact on the loaded session
SessFact(r) ==
    /\ cc_req[r].pc = "loaded"
    /\ cc_req[r].kind = "fact"
    /\ LET recent == cc_req[r].session.recent_facts
       IN  \E t \in get_extinct_fact_titles(0, {<< >>}, recent) :
              SessSave(r, [cc_req[r].session EXCEPT
                             !.recent_facts = RecordFact(recent, t)], t)

\* views.py:92-106: get_latest_news on the loaded session
SessNews(r) ==
    /\ cc_req[r].pc = "loaded"
    /\ cc_req[r].kind = "news"
    /\ \E hn \in fetch_hacker_news, gh \in fetch_github_trending,
          dev \in fetch_dev_to_articles, pol \in fetch_it_policy_news :
          \E out \in get_latest_news(cc_req[r].session.recent_news,
                                     hn, gh, dev, pol) :
             SessSave(r, [cc_req[r].session EXCEPT
                            !.recent_news = out.session], out.resp.title)

\* image_search/views_new.py:20-103, views_backup.py:20-52: search_images
\* never names request.session, so that the session is neither loaded nor
\* written with the response
SessImage(r) ==
    /\ cc_req[r].pc = "new"
    /\ cc_req[r].kind = "image"
    /\ cc_req' = [cc_req EXCEPT ![r].pc = "done"]
    /\ UNCHANGED <<cc_store, nonCcVars>>

SessNext ==
    \E r \in Reqs : SessLoad(r) \/ SessFact(r) \/ SessNews(r) \/ SessImage(r)

SpecSessions == SessInit /\ [][SessNext]_vars

----------------------------------------------------------------------------
(* Properties of the concurrent requests *)

\* The window that a request of the given kind records into
WindowOf(session, kind) ==
    IF kind = "fact" THEN session.recent_facts ELSE session.recent_news

\* The stored session of a consumer, and the same after the step
StoredSession(consumer) == cc_store[SessionKey(consumer)]

StoredSessionAfter(consumer) == cc_store'[SessionKey(consumer)]

StoredWindow(consumer, kind) == WindowOf(StoredSession(consumer), kind)

Recorded(r) ==
    cc_req[r].title \in
        Range(StoredWindow(cc_req[r].consumer, cc_req[r].kind))

\* Two requests of the same consumer and kind have both completed
BothDoneOnOneWindow(r1, r2) ==
    /\ r1 # r2
    /\ cc_req[r1].pc = "done"
    /\ cc_req[r2].pc = "done"
    /\ cc_req[r1].consumer = cc_req[r2].consumer
    /\ cc_req[r1].kind = cc_req[r2].kind
    /\ cc_req[r1].kind \in Kinds

\* C17: once two concurrent requests of the same consumer on the same window
\* have both completed, both served titles are recorded in that window (the
\* windows hold at most three titles before the requests, so that nothing is
\* evicted by the two updates).
C17_NoLostUpdate ==
    \A r1, r2 \in Reqs :
        BothDoneOnOneWindow(r1, r2) => Recorded(r1) /\ Recorded(r2)

\* C18: a step of a request of one consumer leaves the stored session, and
\* so every window, of every other consumer unchanged.
C18_OtherConsumersUntouched ==
    [][\A r \in Reqs :
          cc_req'[r] # cc_req[r] =>
             \A other \in Consumers \ {cc_req[r].consumer} :
                \A k \in Kinds :
                   WindowOf(StoredSessionAfter(other), k) =
                      StoredWindow(other, k)]_vars

\* Both consumers have had a request served, and the session of each holds
\* its own request's update and nothing of the other's
C18_Witness ==
    \E r1, r2 \in Reqs :
        /\ cc_req[r1].pc = "done" /\ cc_req[r1].consumer = "A"
        /\ cc_req[r2].pc = "done" /\ cc_req[r2].consumer = "B"
        /\ StoredSession("A") # InitialStore[SessionKey("A")]
        /\ StoredSession("A") = cc_req[r1].session
        /\ StoredSession("B") # InitialStore[SessionKey("B")]
        /\ StoredSession("B") = cc_req[r2].session

----------------------------------------------------------------------------
(* One call of an aggregator, fetch_tech_news (views.py:113-140) or the     *)
(* source list of search_images (image_service.py:29-43), with the answers  *)
(* that the requests of its first source meet                               *)

SrHistories ==
    {<< >>, <<"Fire: Python tops the developer survey">>,
     current_policy_news}

\* No request was made
NotSent(body) == HttpRaises("", body)

\* views.py:150-158: the story is requested after a 200 with a story id
StoryRequested(top) ==
    top.raises = "" /\ top.status_code = 200 /\ top.json # << >>

SrInit ==
    /\ \/ /\ sr_domain = "news"
          /\ sr_history \in SrHistories
          /\ sr_query = << >>
       \/ /\ sr_domain = "images"
          /\ sr_history = << >>
          /\ sr_query \in Queries
    /\ sr_pc = "call"
    /\ sr_http = << >>
    /\ sr_results = << >>
    /\ sr_out = << >>
    /\ FactIdle
    /\ NewsIdle
    /\ ImgIdle
    /\ DedupIdle
    /\ ValidateIdle
    /\ ViewIdle
    /\ SessIdle
    /\ MaterializeIdle
    /\ FallbackIdle

\* views.py:119-124: the list `sources` is built, fetch_hacker_news first
SrFetchNews ==
    /\ sr_pc = "call"
    /\ sr_domain = "news"
    /\ \E top \in top_stories_responses :
       \E story \in IF StoryRequested(top) THEN story_responses
                    ELSE {NotSent([title |-> ""])} :
       \E gh \in fetch_github_trending, dev \in fetch_dev_to_articles,
          pol \in fetch_it_policy_news :
          /\ sr_http' = [top |-> top, story |-> story]
          /\ sr_results' = <<fetch_hacker_news_on(top, story), gh, dev, pol>>
    /\ sr_pc' = "fetched"
    /\ UNCHANGED <<sr_domain, sr_history, sr_query, sr_out, nonSrVars>>

\* image_service.py:32-38: the list `sources` is built, search_unsplash first
SrFetchImages ==
    /\ sr_pc = "call"
    /\ sr_domain = "images"
    /\ \E response \in unsplash_responses :
       \E rd \in search_reddit(sr_query), wk \in search_wikimedia(sr_query) :
          /\ sr_http' = [search |-> response]
          /\ sr_results' = <<search_unsplash_on(sr_query, response),
                             search_pixabay(sr_query),
                             search_pexels(sr_query), rd, wk>>
    /\ sr_pc' = "fetched"
    /\ UNCHANGED <<sr_domain, sr_history, sr_query, sr_out, nonSrVars>>

\* views.py:126-140: an exception that left a source is caught at 137 and
\* None is returned at 140; otherwise one of the valid news is returned
SrCombineNews ==
    /\ sr_pc = "fetched"
    /\ sr_domain = "news"
    /\ IF Raises \in Range(sr_results)
       THEN sr_out' = None
       ELSE sr_out' \in fetch_tech_news(sr_history, sr_results[1],
                                        sr_results[2], sr_results[3],
                                        sr_results[4])
    /\ sr_pc' = "done"
    /\ UNCHANGED <<sr_domain, sr_history, sr_query, sr_http, sr_results,
                   nonSrVars>>

\* image_service.py:40-43
SrCombineImages ==
    /\ sr_pc = "fetched"
    /\ sr_domain = "images"
    /\ sr_out' = extend_all(sr_results)
    /\ sr_pc' = "done"
    /\ UNCHANGED <<sr_domain, sr_history, sr_query, sr_http, sr_results,
                   nonSrVars>>

SrNext == SrFetchNews \/ SrFetchImages \/ SrCombineNews \/ SrCombineImages

SpecSources == SrInit /\ [][SrNext]_vars

----------------------------------------------------------------------------
(* Properties of the sources *)

\* A network error, a timeout or a status other than 2xx
RequestFailed(response) ==
    response.raises # "" \/ response.status_code \notin 200..299

HackerNewsFailed ==
    /\ sr_domain = "news"
    /\ sr_pc \in {"fetched", "done"}
    /\ \/ RequestFailed(sr_http.top)
       \/ StoryRequested(sr_http.top) /\ RequestFailed(sr_http.story)

UnsplashFailed ==
    /\ sr_domain = "images"
    /\ sr_pc \in {"fetched", "done"}
    /\ RequestFailed(sr_http.search)

\* What the news sources of the list `rest` alone produce: one of their
\* items that is not in the window, None when there is none
NewsOfSources(history, rest) ==
    LET valid == Range(rest) \ ({None} \cup Range(history))
    IN  IF valid = {} THEN {None} ELSE valid

\* What the image sources of the list `rest` alone produce: their results,
\* in the order of the list
RECURSIVE ImagesOfSources(_)
ImagesOfSources(rest) ==
    IF rest = << >> THEN << >>
    ELSE Head(rest) \o ImagesOfSources(Tail(rest))

\* C19: when a request of fetch_hacker_news or of search_unsplash fails
\* (network error, timeout, status other than 2xx), the source returns the
\* empty result (None, []) and raises nothing, and the aggregator produces
\* what the remaining sources of its list alone produce.
C19_SourceFailureContained ==
    /\ HackerNewsFailed =>
          /\ sr_results[1] = None
          /\ fetch_tech_news(sr_history, sr_results[1], sr_results[2],
                             sr_results[3], sr_results[4])
               = NewsOfSources(sr_history, Tail(sr_results))
          /\ sr_pc = "done" =>
                sr_out \in NewsOfSources(sr_history, Tail(sr_results))
    /\ UnsplashFailed =>
          /\ sr_results[1] = << >>
          /\ sr_pc = "done" => sr_out = ImagesOfSources(Tail(sr_results))

\* The story request of fetch_hacker_news timed out and fetch_tech_news
\* returned the item of another source
C19_Witness ==
    /\ HackerNewsFailed
    /\ sr_pc = "done"
    /\ sr_http.story.raises = "Timeout"
    /\ sr_out = "Star: llm-kit - Trending on GitHub"

----------------------------------------------------------------------------
(* get_latest_news when fetch_tech_news returns None *)

\* fetch_tech_news can only return None on the window: every source result
\* is None or already in the window
NoCandidate(window, hn, gh, dev, pol) ==
    fetch_tech_news(window, hn, gh, dev, pol) = {None}

\* The answer is a curated item with status 200 and its title is the newest
\* entry of the window left in the session
CuratedAnswerRecorded(resp, session) ==
    /\ resp.status = 200
    /\ resp.title \in Range(fallback_news)
    /\ session # << >>
    /\ session[Len(session)] = resp.title

\* The last request was a get-latest-news request answered without a
\* candidate from fetch_tech_news
AnsweredWithoutCandidate ==
    /\ NewsAnswered
    /\ news_hist # << >>
    /\ news_hist[Len(news_hist)].path # "live"

\* C20: whenever fetch_tech_news yields no candidate (every source returned
\* None or an item already in the window), get_latest_news answers with
\* status 200 and an item of fallback_news, and that item's title is recorded
\* in the news window: for every result of the sources on the stored window,
\* and for the request that was just answered in this way.
C20_FallbackServedAndRecorded ==
    /\ \A hn \in fetch_hacker_news, gh \in fetch_github_trending,
          dev \in fetch_dev_to_articles, pol \in fetch_it_policy_news :
          NoCandidate(session_news, hn, gh, dev, pol) =>
             \A out \in get_latest_news(session_news, hn, gh, dev, pol) :
                CuratedAnswerRecorded(out.resp, out.session)
    /\ AnsweredWithoutCandidate =>
          CuratedAnswerRecorded(news_resp, session_news)

\* A request met a window that holds every policy title, the other sources
\* returned None, and a curated item was served and recorded after them
C20_Witness ==
    /\ AnsweredWithoutCandidate
    /\ news_hist[Len(news_hist)].path = "fallback"
    /\ Range(current_policy_news) \subseteq Range(recent_news)
    /\ news_resp.title \notin Range(recent_news)
    /\ session_news = RecordNews(recent_news, news_resp.title)

----------------------------------------------------------------------------
(* The redraw loop of get_extinct_fact (views.py:43-63) *)

\* C21: a draw whose title is absent from the window is accepted whatever the
\* attempt, and the tenth draw is accepted whatever its title; the answered
\* request has status 200 and its title is recorded as the newest entry of
\* the window, also when the title was in the window that the request read
\* (which happens only at the tenth draw, the nine before having collided).
C21_LastDrawAcceptedAndRecorded ==
    /\ fpc = "loop" =>
          \A f \in AllFactTitles :
             /\ f \notin Range(recent_facts) =>
                   AcceptFact(f, recent_facts, attempt)
             /\ AcceptFact(f, recent_facts, max_attempts - 1)
    /\ FactAnswered =>
          /\ fact_resp.status = 200
          /\ session_facts = RecordFact(recent_facts, fact_resp.title)
          /\ session_facts # << >>
          /\ session_facts[Len(session_facts)] = fact_resp.title
          /\ fact_resp.title \in Range(recent_facts) =>
                fact_resp.draws = max_attempts

\* Ten draws collided with the window, the tenth was served and recorded
C21_Witness ==
    /\ FactAnswered
    /\ fact_resp.draws = max_attempts
    /\ fact_resp.title \in Range(recent_facts)
    /\ session_facts[Len(session_facts)] = fact_resp.title
    /\ Len(recent_facts) >= 2

\* The newest entry of a window is the given title
NewestIs(window, title) ==
    window # << >> /\ window[Len(window)] = title

\* C22: after a get-fact request answered with status 200 the title returned
\* is the last entry of the facts window, and after a get-latest-news request
\* answered with status 200 (by a live source or by get_fallback_news) the
\* title returned is the last entry of the news window.
C22_ReturnedIsNewestEntry ==
    /\ FactAnswered /\ fact_resp.status = 200 =>
          NewestIs(session_facts, fact_resp.title)
    /\ NewsAnswered /\ news_resp.status = 200 =>
          NewestIs(session_news, news_resp.title)

\* A live news item was recorded in a full window, evicting its oldest entry
C22_Witness ==
    /\ NewsAnswered
    /\ news_resp.status = 200
    /\ Len(recent_news) = NewsCap
    /\ news_hist[Len(news_hist)].path = "live"
    /\ session_news = Tail(recent_news) \o <<news_resp.title>>

----------------------------------------------------------------------------
(* The curated fallback of search_images (image_service.py:56-64) *)

\* The number of images that validate_image accepted in the call
AcceptedCount == Len(SelectSeq(img_log, LAMBDA accepted : accepted))

\* The items of the result after the accepted ones
AppendedItems == SubSeq(img_result, AcceptedCount + 1, Len(img_result))

Min(a, b) == IF a <= b THEN a ELSE b

\* The result is the accepted images, none of them curated, followed by the
\* first k items of the curated pool of the query
CuratedAfterValidated(k) ==
    /\ Len(img_result) = AcceptedCount + k
    /\ \A i \in 1..AcceptedCount :
          img_result[i].source # "Curated Collection"
    /\ AppendedItems = SubSeq(get_curated_images(img_query), 1, k)

\* C23 as stated: with fewer than 5 accepted images the curated items of the
\* query are appended after them until 5 images are held or the curated pool
\* is exhausted; with 5 or more none is appended.
C23_CuratedUpToThreshold ==
    img_pc = "done" =>
       IF AcceptedCount < curated_threshold
       THEN CuratedAfterValidated(
               Min(Len(get_curated_images(img_query)),
                   curated_threshold - AcceptedCount))
       ELSE CuratedAfterValidated(0)

\* C23 amended: with fewer than 5 accepted images the curated items of the
\* query are appended after them, without a call of validate_image, while
\* the list holds fewer than max_results images, until the curated pool is
\* exhausted; with 5 or more accepted images none is appended.
C23_CuratedUpToMaxResults ==
    img_pc = "done" =>
       /\ Len(img_log) <= Len(unique_images)
       /\ IF AcceptedCount < curated_threshold
          THEN CuratedAfterValidated(
                  Min(Len(get_curated_images(img_query)),
                      IF img_max > AcceptedCount
                      THEN img_max - AcceptedCount ELSE 0))
          ELSE CuratedAfterValidated(0)

\* Two images were accepted and the curated item of the query follows them
C23_Witness ==
    /\ img_pc = "done"
    /\ AcceptedCount = 2
    /\ Len(img_result) = 3
    /\ img_result[3].source = "Curated Collection"
    /\ img_result[3] = get_curated_images(img_query)[1]

----------------------------------------------------------------------------
(* The order of the images that search_images returns *)

\* image_service.py:32-38: the place of a source in the list `sources`
SourceRank(source) ==
    CASE source = "Unsplash" -> 1
      [] source = "Pixabay" -> 2
      [] source = "Pexels" -> 3
      [] source = "Reddit r/pics" -> 4
      [] source = "Wikimedia Commons" -> 5
      [] OTHER -> 6

\* The images of a list that come from the given source, in list order
FromSource(images, source) ==
    SelectSeq(images, LAMBDA image : image.source = source)

\* The images of the result that no curated pool gave
NonCurated ==
    SelectSeq(img_result, LAMBDA image : image.source # "Curated Collection")

\* The first position of an image in a list that holds it
PositionIn(images, image) ==
    CHOOSE i \in 1..Len(images) :
        images[i] = image /\ \A j \in 1..(i - 1) : images[j] # image

\* C24: the non-curated images of the result are in the order Unsplash,
\* Pixabay, Pexels, Reddit, Wikimedia: no image of a later source of the list
\* precedes an image of an earlier one, and the images of one source keep the
\* order in which the source returned them (the order of all_images, where
\* the generated Pixabay and Pexels items stand as their source built them).
C24_SourcePriorityOrder ==
    img_pc = "done" =>
       /\ \A i \in 1..Len(NonCurated) :
             \E k \in 1..Len(all_images) : all_images[k] = NonCurated[i]
       /\ \A i, j \in 1..Len(NonCurated) :
             i < j =>
                /\ SourceRank(NonCurated[i].source)
                      <= SourceRank(NonCurated[j].source)
                /\ PositionIn(all_images, NonCurated[i])
                      < PositionIn(all_images, NonCurated[j])
       /\ FromSource(all_images, "Pixabay") = search_pixabay(img_query)
       /\ FromSource(all_images, "Pexels") = search_pexels(img_query)

\* The result holds images of Unsplash, Pixabay and Pexels, in this order,
\* and a Reddit post of the same URL as the Unsplash photo was dropped
C24_Witness ==
    /\ img_pc = "done"
    /\ Len(NonCurated) >= 4
    /\ NonCurated[1].source = "Unsplash"
    /\ NonCurated[2].source = "Pixabay"
    /\ NonCurated[Len(NonCurated)].source = "Pexels"
    /\ FromSource(all_images, "Reddit r/pics") # << >>
    /\ FromSource(NonCurated, "Reddit r/pics") = << >>
    /\ FromSource(NonCurated, "Pexels") # << >>

----------------------------------------------------------------------------
(* The order of the tests of validate_image *)

\* C25: for an image with an empty title validate_image makes no HEAD
\* request: the title is tested before the URL is probed.
C25_NoProbeForEmptyTitle ==
    vl_pc \in {"done", "raised"} /\ vl_image.title = << >> => vl_heads = 0

\* The image has no media reference: no 'url' key, or an empty URL
NoMediaReference(image) == image.url \in {absent, << >>}

\* C26: validate_image returns False for an image that has no media
\* reference and no exception leaves it, and remove_duplicates, through which
\* search_images passes every source result, does not raise on a list that
\* holds the image.
C26_MissingReferenceRejected ==
    vl_pc \in {"done", "raised"} /\ NoMediaReference(vl_image) =>
       /\ vl_pc = "done"
       /\ vl_raised = ""
       /\ ~vl_result
       /\ ~remove_duplicates_raises(<<vl_image>>)

----------------------------------------------------------------------------
(* The files that the image views save: views_new.py:42-63 and              *)
(* ai_image_generator.py:58-74, 178-193.  The same prompt is materialized   *)
(* again and again, by the same code, in server processes that come and go. *)

\* Materializations explored
MaxMaterialize == 3

\* The code that materializes: the loop of views_new.search_images, of
\* generate_with_pollinations or of generate_variations
Materializers == {"views_new", "pollinations", "variation"}

\* hash() of a str is salted: the salt is drawn when the interpreter starts
\* and differs from one server process to another
HashSalts == {"salt1", "salt2"}

MtIndices == {0, 1, num_images - 1}

\* Mutant of file_name: the index is not part of the name
file_name_NoIndex(impl, prompt, i, salt) ==
    [prefix |-> IF impl = "variation" THEN "variation_" ELSE "pollinations_",
     prompt |-> prompt, index |-> 0, seed |-> ""]

\* The name of the file saved for index i of a prompt, as what it is a
\* function of.  views_new.py:43, 53-54: "pollinations_", then the md5 of
\* prompt, index and seed, the seed being hash(f"{prompt}_{i}") % 1000000,
\* which depends on the salt of the process.  ai_image_generator.py:69 and
\* 188: "pollinations_" or "variation_", then the md5 of prompt (and style,
\* which the index fixes) and index; the seed is part of the URL only.
file_name(impl, prompt, i, salt) ==
    [prefix |-> IF impl = "variation" THEN "variation_" ELSE "pollinations_",
     prompt |-> prompt, index |-> i,
     seed   |-> IF impl = "views_new" THEN salt ELSE ""]

\* views_new.py:67, ai_image_generator.py:76 and 195: the 'url' of the image
local_reference(file) == [dir |-> "/static/generated_images/", file |-> file]

NoReference == local_reference(file_name("", << >>, 0, ""))

MaterializeInit ==
    /\ mt_impl \in Materializers
    /\ mt_prompt \in {q_car, q_butterfly}
    /\ mt_salt \in HashSalts
    /\ mt_files = {}
    /\ mt_log = << >>
    /\ FactIdle
    /\ NewsIdle
    /\ ImgIdle
    /\ DedupIdle
    /\ ValidateIdle
    /\ ViewIdle
    /\ SessIdle
    /\ SourcesIdle
    /\ FallbackIdle

\* views_new.py:50-72, ai_image_generator.py:66-85, 185-204: the download
\* answers 200, the file is written (created or overwritten) and the image
\* with its local reference is appended
Materialize ==
    /\ Len(mt_log) < MaxMaterialize
    /\ \E i \in MtIndices :
          LET file == file_name(mt_impl, mt_prompt, i, mt_salt)
          IN  /\ mt_files' = mt_files \cup {file}
              /\ mt_log' = Append(mt_log,
                                  [index |-> i, saved |-> TRUE,
                                   reference |-> local_reference(file),
                                   files |-> mt_files \cup {file}])
    /\ UNCHANGED <<mt_impl, mt_prompt, mt_salt, nonMtVars>>

\* views_new.py:75-80, ai_image_generator.py:87-89, 206-208: the download
\* fails, no file is written and no image is appended
MaterializeFails ==
    /\ Len(mt_log) < MaxMaterialize
    /\ \E i \in MtIndices :
          mt_log' = Append(mt_log, [index |-> i, saved |-> FALSE,
                                    reference |-> NoReference,
                                    files |-> mt_files])
    /\ UNCHANGED <<mt_impl, mt_prompt, mt_salt, mt_files, nonMtVars>>

\* The server process is replaced by another (restart, or a request served
\* by another worker): str hashes have another salt
ProcessChanges ==
    /\ \E salt \in HashSalts \ {mt_salt} : mt_salt' = salt
    /\ UNCHANGED <<mt_impl, mt_prompt, mt_files, mt_log, nonMtVars>>

MaterializeNext == Materialize \/ MaterializeFails \/ ProcessChanges

SpecMaterialize == MaterializeInit /\ [][MaterializeNext]_vars

----------------------------------------------------------------------------
(* Properties of the saved files *)

\* Positions of the log at which index i was saved
SavedAt(i) == {k \in 1..Len(mt_log) : mt_log[k].saved /\ mt_log[k].index = i}

\* C27: two materializations of the same prompt and index give the same
\* local reference and the second leaves the set of stored files as it was
\* after the first (when nothing else was saved in between); materializations
\* of distinct indices give distinct references.
C27_MaterializeIdempotent ==
    \A j, k \in 1..Len(mt_log) :
       j < k /\ mt_log[j].saved /\ mt_log[k].saved =>
          IF mt_log[j].index = mt_log[k].index
          THEN /\ mt_log[k].reference = mt_log[j].reference
               /\ k = j + 1 => mt_log[k].files = mt_log[j].files
          ELSE mt_log[k].reference # mt_log[j].reference

\* The same restricted to materializations by ai_image_generator.py
C27_GeneratorIdempotent ==
    mt_impl # "views_new" => C27_MaterializeIdempotent

----------------------------------------------------------------------------
(* The downloads of one search-images request *)

FailedFirstLoop == Len(SelectSeq(FirstLoop, LAMBDA f : ~f.saved))

\* No download of the history is made a second time
AttemptedOnce ==
    \A j, k \in 1..Len(iv_fetches) :
       j # k => \/ iv_fetches[j].loop # iv_fetches[k].loop
                \/ iv_fetches[j].index # iv_fetches[k].index

\* C28 as stated: within one image request each item's materialization is
\* attempted exactly once and never retried, the number of download attempts
\* equals the number of requested images whatever the number of failures,
\* and the result never holds more than the requested number of images.
C28_AttemptsEqualRequested ==
    /\ AttemptedOnce
    /\ ViewAnswered /\ iv_prompt # << >> =>
          /\ Len(iv_fetches) = num_images
          /\ Len(iv_resp.images) <= num_images

\* C28, amended: within one image request each item's materialization is
\* attempted exactly once and never retried, the number of download attempts
\* equals the number of requested images whatever the number of failures,
\* plus, behind views_backup, one download of a variation for each failed
\* download of the first loop, and the result never holds more than the
\* requested number of images.
C28_AttemptedOncePerItem ==
    /\ AttemptedOnce
    /\ ViewAnswered /\ iv_prompt # << >> =>
          /\ Len(iv_fetches) =
                num_images + IF iv_view = "views_backup" THEN FailedFirstLoop
                             ELSE 0
          /\ Len(iv_resp.images) <= num_images

\* views_backup answered after two failed downloads of the first loop and
\* two variations, of which one was saved
C28_Witness ==
    /\ ViewAnswered
    /\ iv_view = "views_backup"
    /\ FailedFirstLoop = 2
    /\ Len(iv_fetches) = num_images + 2
    /\ iv_fetches[num_images + 1] = Fetch("variations", 0, FALSE)
    /\ iv_fetches[num_images + 2] = Fetch("variations", 1, TRUE)
    /\ Len(iv_resp.images) = num_images - 1

----------------------------------------------------------------------------
(* The windows that a request leaves alone *)

\* The step completes request r
Completes(r) == cc_req[r].pc # "done" /\ cc_req'[r].pc = "done"

\* C29: the image operations neither read nor write any novelty window: a
\* search-images request leaves the consumer's facts and news windows
\* unchanged; likewise a get-fact request leaves the news window unchanged
\* and a get-latest-news request leaves the facts window unchanged.
C29_OtherWindowsUnchanged ==
    [][\A r \in Reqs :
          Completes(r) =>
             /\ cc_req[r].kind = "image" => cc_req'[r].session = NotLoaded
             /\ \A k \in Kinds \ {cc_req[r].kind} :
                   WindowOf(StoredSessionAfter(cc_req[r].consumer), k) =
                      StoredWindow(cc_req[r].consumer, k)]_vars

\* The same of the search-images requests alone
C29_ImageRequestsKeepWindows ==
    [][\A r \in Reqs :
          Completes(r) /\ cc_req[r].kind = "image" =>
             /\ cc_req'[r].session = NotLoaded
             /\ StoredSessionAfter(cc_req[r].consumer) =
                   StoredSession(cc_req[r].consumer)]_vars

----------------------------------------------------------------------------
(* Where the facts come from *)

\* wikidata_service.py:24-26: the handler of get_it_ai_fact
get_it_ai_fact_except(recent) == get_fallback_it_ai_fact(recent)

\* facts_service.py:24-26 and 28-31: the "else" branch and the handler of
\* FactsService.get_extinct_fact
FactsService_get_extinct_fact_except(recent) ==
    get_fallback_it_ai_fact(recent)

\* What the service can return on the service's recent list, by any path
FactServicePaths(recent) ==
    FactsService_get_extinct_fact(recent)
    \cup get_it_ai_fact_except(recent)
    \cup FactsService_get_extinct_fact_except(recent)

----------------------------------------------------------------------------
(* get_fallback_news on its own (views.py:292-370): a call with the list    *)
(* that get_latest_news read from the session (views.py:106), or with the   *)
(* empty list of the handler (views.py:110), on the windows that a session  *)
(* can store                                                                *)

\* The windows stored after the requests of the two sessions of reference
FbWindows ==
    UNION {{NewsSeed(run, n) : n \in {m \in 0..Len(run) : NewsSeedOk(run, m)}} :
             run \in {NewsRunA, NewsRunB}}

FallbackInit ==
    /\ fb_stored \in FbWindows
    /\ fb_history \in {fb_stored, << >>}
    /\ fb_out = [resp |-> [status |-> 0, title |-> ""], session |-> << >>,
                 path |-> ""]
    /\ fb_pc = "call"
    /\ FactIdle
    /\ NewsIdle
    /\ ImgIdle
    /\ DedupIdle
    /\ ValidateIdle
    /\ ViewIdle
    /\ SessIdle
    /\ SourcesIdle
    /\ MaterializeIdle

\* views.py:350-370: the call returns
FallbackCall ==
    /\ fb_pc = "call"
    /\ fb_out' \in get_fallback_news(fb_history, fb_stored)
    /\ fb_pc' = "done"
    /\ UNCHANGED <<fb_history, fb_stored, nonFbVars>>

FallbackNext == FallbackCall

SpecFallback == FallbackInit /\ [][FallbackNext]_vars

----------------------------------------------------------------------------
(* Properties of get_fallback_news *)

\* The list given to the call holds every curated news title
TotalCollision == Range(fallback_news) \subseteq Range(fb_history)

\* C31: when get_fallback_news is entered with a history that contains
\* every curated news title, it clears the stored news window before
\* recording, so that after the request the window contains exactly one
\* entry, the title just served.
C31_ResetLeavesOneEntry ==
    fb_pc = "done" /\ TotalCollision =>
        /\ fb_out.path = "reset"
        /\ fb_out.resp.status = 200
        /\ fb_out.resp.title \in Range(fallback_news)
        /\ fb_out.session = <<fb_out.resp.title>>

\* Such a call on a full window has returned
C31_Witness ==
    /\ fb_pc = "done"
    /\ TotalCollision
    /\ Len(fb_stored) = NewsCap
    /\ fb_out.session = <<fallback_news[3]>>

----------------------------------------------------------------------------
(* The keys of the windows *)

\* A title that is a string with at least one character
NonEmptyKey(title) == title # "" /\ title # None

\* C32: every key recorded in a consumer's facts or news window is a
\* non-empty string, after any sequence of requests.
C32_KeysNonEmpty ==
    /\ \A i \in 1..Len(session_facts) : NonEmptyKey(session_facts[i])
    /\ \A i \in 1..Len(session_news) : NonEmptyKey(session_news[i])

\* A request answered by a live source on a full window has recorded the
\* title of a Dev.to article
C32_Witness ==
    /\ NewsAnswered
    /\ Len(recent_news) = NewsCap
    /\ news_resp.title \in fetch_dev_to_articles
    /\ session_news[NewsCap] = news_resp.title

----------------------------------------------------------------------------
(* The title served and the window read *)

\* The path of the get-latest-news request last answered
LastNewsPath == news_hist[Len(news_hist)].path

\* C33: a get-latest-news request that completes without an internal
\* exception never returns a title that was in the consumer's news window at
\* the start of the request, on the live path and on the curated fallback
\* path alike, except when the window covers the whole curated pool and is
\* reset.
C33_ServedOutsideWindow ==
    NewsAnswered /\ LastNewsPath # "reset" =>
        /\ news_resp.status = 200
        /\ news_resp.title \notin Range(recent_news)

\* A request on a full window answered by the curated fallback, the policy
\* title drawn being in the window
C33_Witness ==
    /\ NewsAnswered
    /\ LastNewsPath = "fallback"
    /\ Len(recent_news) = NewsCap
    /\ news_resp.title \in Range(fallback_news) \ Range(recent_news)
    /\ Range(recent_news) \cap Range(current_policy_news) # {}

----------------------------------------------------------------------------
(* The reset branch of get_fallback_news in a session *)

\* C34: the policy source always returns one of its own items and its
\* titles are disjoint from the curated fallback titles, so that the curated
\* fallback is entered from the no-candidate path only when a policy title
\* is in the window; at least one curated title is then absent from the
\* window, and the reset branch of get_fallback_news is never taken in any
\* sequence of get-latest-news requests that raise no exception.
C34_ResetNeverTaken ==
    /\ None \notin fetch_it_policy_news
    /\ fetch_it_policy_news \cap Range(fallback_news) = {}
    /\ \A i \in 1..Len(news_hist) : news_hist[i].path # "reset"
    /\ NewsAnswered /\ LastNewsPath = "fallback" =>
          /\ Range(recent_news) \cap fetch_it_policy_news # {}
          /\ Range(fallback_news) \ Range(recent_news) # {}

\* The fallback has answered on a window that held one policy title and
\* nine of the ten curated titles
C34_Witness ==
    /\ NewsAnswered
    /\ LastNewsPath = "fallback"
    /\ Cardinality(Range(recent_news) \cap Range(fallback_news)) = 9
    /\ Cardinality(Range(recent_news) \cap fetch_it_policy_news) = 1

----------------------------------------------------------------------------
(* What a request records *)

\* The step answers a get-fact request, a get-latest-news request
AnswersFact == fact_reqs' = fact_reqs + 1

AnswersNews == news_reqs' = news_reqs + 1

\* C35: every successful get-fact or get-latest-news request records exactly
\* one title: the window after the request is the window before it with
\* exactly one title appended, then trimmed to capacity (or, on reset,
\* exactly that one title); a step that answers no request records nothing.
C35_ExactlyOneTitleRecorded ==
    [][/\ IF AnswersFact
          THEN /\ fact_resp'.status = 200
               /\ session_facts' =
                     LastK(Append(session_facts, fact_resp'.title), FactCap)
          ELSE session_facts' = session_facts
       /\ IF AnswersNews
          THEN /\ news_resp'.status = 200
               /\ session_news' =
                     IF news_hist'[Len(news_hist')].path = "reset"
                     THEN <<news_resp'.title>>
                     ELSE LastK(Append(session_news, news_resp'.title),
                                NewsCap)
          ELSE session_news' = session_news]_vars

\* A get-fact request on a full window has drawn more than once and recorded
\* its title in the place of the oldest
C35_Witness ==
    /\ FactAnswered
    /\ fact_resp.draws >= 2
    /\ Len(recent_facts) = FactCap
    /\ session_facts = Tail(recent_facts) \o <<fact_resp.title>>

----------------------------------------------------------------------------
(* Repeated titles in the facts window *)

\* C36 as stated: a consumer's facts window never contains the same title
\* twice, after any sequence of get-fact requests.
C36_FactsWindowNoDuplicates == NoDuplicates(session_facts)

\* C36, amended: a get-fact request leaves a title twice in a facts window
\* that held none twice only when its ten draws all fell inside the window
\* and the tenth, a title of the window, was recorded.
C36_DuplicateOnlyByTenthDraw ==
    (FactAnswered /\ NoDuplicates(recent_facts)
     /\ ~NoDuplicates(session_facts)) =>
        /\ fact_resp.draws = max_attempts
        /\ fact_resp.title \in Range(recent_facts)

\* Such a request: the window it leaves holds its title twice
C36_Witness ==
    /\ FactAnswered
    /\ NoDuplicates(recent_facts)
    /\ fact_resp.draws = max_attempts
    /\ Cardinality({i \in 1..Len(session_facts) :
                      session_facts[i] = fact_resp.title}) = 2

----------------------------------------------------------------------------
(* Repeated URLs in the list that search_images returns *)

IsCurated(image) == image.source = "Curated Collection"

\* Pairs of positions of the returned list that hold the same URL
SameUrlPairs ==
    {p \in (1..Len(img_result)) \X (1..Len(img_result)) :
        p[1] < p[2] /\ img_result[p[1]].url = img_result[p[2]].url}

\* C37 as stated: the list returned by search_images never contains two
\* items with the same media URL, including when curated fallback items are
\* appended after the validated ones.
C37_NoRepeatedUrl == ImgReturned => SameUrlPairs = {}

\* C37, amended: the list returned by search_images never contains two
\* items of the sources with the same media URL; a curated fallback item,
\* which is appended after the validated ones without being compared with
\* them, can repeat the URL of an item of a source.
C37_NoRepeatedUrlAmongSources ==
    ImgReturned =>
        \A p \in SameUrlPairs :
           ~IsCurated(img_result[p[1]]) /\ IsCurated(img_result[p[2]])

\* remove_duplicates dropped an image, and the curated item was appended
\* after an accepted photo of the same URL
C37_Witness ==
    /\ ImgReturned
    /\ Len(unique_images) < Len(all_images)
    /\ Len(img_result) >= 3
    /\ SameUrlPairs = {<<1, Len(img_result)>>}

----------------------------------------------------------------------------
(* The probes of search_images *)

\* The images that the loop of image_service.py:50 probed and accepted, in
\* the order of unique_images
AcceptedItems ==
    LET probed == [k \in 1..Len(img_log) |-> k]
        accepted == SelectSeq(probed, LAMBDA k : img_log[k])
    IN  [i \in 1..Len(accepted) |-> unique_images[accepted[i]]]

\* The number of images accepted before the k-th probe
AcceptedBefore(k) ==
    Len(SelectSeq(SubSeq(img_log, 1, k - 1), LAMBDA accepted : accepted))

\* C38: every non-curated item of the list that search_images returns was
\* accepted by validate_image for the query of the request, the accepted
\* items keep the order they have after remove_duplicates, and no item is
\* probed once max_results accepted items have been collected.
C38_AcceptedInOrderNoExtraProbe ==
    ImgReturned =>
        /\ NonCurated = AcceptedItems
        /\ \A i \in 1..Len(NonCurated) :
              \E probe \in ProbeOutcomes :
                 validate_image(NonCurated[i], img_query, probe)
        /\ \A k \in 1..Len(img_log) : AcceptedBefore(k) < img_max

\* The same for the calls with max_results of 1 or more
C38_FromOneResultOn == img_max >= 1 => C38_AcceptedInOrderNoExtraProbe

----------------------------------------------------------------------------
(* The draws of one get-fact request *)

\* C39: within one get-fact request, as long as each call of the sampler
\* returns a title outside the service's own recent list (no draw from line
\* 54) and the pool has more than 5 distinct titles, a title absent from the
\* consumer's 5-entry window is drawn within at most 6 draws, so that the
\* branch of the tenth draw, which accepts a repeat, is not reached.
C39_FreshTitleWithinSixDraws ==
    /\ Cardinality(AllFactTitles) > FactCap
    /\ fpc = "loop" /\ ~svc_fell =>
          /\ attempt <= FactCap
          /\ Range(svc_recent) \subseteq Range(recent_facts)
    /\ FactAnswered /\ ~svc_fell =>
          /\ fact_resp.draws <= FactCap + 1
          /\ fact_resp.title \notin Range(recent_facts)

\* A request on a full window drew its five titles, each outside the
\* service's recent list, and was answered at its sixth draw
C39_Witness ==
    /\ FactAnswered
    /\ ~svc_fell
    /\ Len(recent_facts) = FactCap
    /\ fact_resp.draws = FactCap + 1

----------------------------------------------------------------------------
(* The recent list of WikidataService *)

\* The outcome is a title outside the list, appended to it, the oldest title
\* leaving a list of more than max_recent
AppendedFresh(recent, out) ==
    /\ out.fact \notin Range(recent)
    /\ out.recent = LastK(Append(recent, out.fact), max_recent)

\* The outcome is a fact of the pool, the list being left as it was
ArbitraryUnrecorded(recent, out) ==
    /\ out.fact \in AllFactTitles
    /\ out.recent = recent

\* C40: the recent list of WikidataService never exceeds 5 titles;
\* get_fallback_it_ai_fact returns a title outside that list and appends it
\* (evicting the oldest beyond 5) unless all 10 of its draws collide, in
\* which case it returns an arbitrary pool fact and leaves the list
\* unchanged.
C40_ServiceRecentList ==
    /\ Len(svc_recent) <= max_recent
    /\ \A out \in get_fallback_it_ai_fact(svc_recent) :
          /\ Len(out.recent) <= max_recent
          /\ \/ AppendedFresh(svc_recent, out)
             \/ /\ AllDrawsCollide(svc_attempts, svc_recent)
                /\ svc_recent # << >>
                /\ ArbitraryUnrecorded(svc_recent, out)

\* The list of the request's service is full, after five appended draws and
\* a call whose ten draws collided
C40_Witness ==
    /\ fpc = "loop"
    /\ svc_fell
    /\ Len(svc_recent) = max_recent
    /\ attempt > max_recent

=============================================================================
